---- MODULE Spec2Model ----
(***************************************************************************)
(* Longest-palindromic-substring analyzer (server of the LPS project).     *)
(*                                                                         *)
(* A JavaScript string is a sequence of UTF-16 code units; a code unit is  *)
(* written here as a one-character string ("a", "A", "1", " ") or, for a   *)
(* non-ASCII code unit, as its code point ("U+017F" is LATIN SMALL LETTER  *)
(* LONG S, a Unicode letter whose upper-case form is the ASCII "S").       *)
(* Offsets are 0-based as in the source; At and substring convert.         *)
(***************************************************************************)
EXTENDS Integers, Sequences, FiniteSets, TLC

\* ------------------------------------------------------------------ bounds
\* Longest raw input drawn from the alphabet below.
MaxLen == 4

\* --------------------------------------------------------------- characters
LowerSeq == << "a", "b", "c", "d", "e", "f", "g", "h", "i", "j", "k", "l", "m",
               "n", "o", "p", "q", "r", "s", "t", "u", "v", "w", "x", "y", "z" >>

UpperSeq == << "A", "B", "C", "D", "E", "F", "G", "H", "I", "J", "K", "L", "M",
               "N", "O", "P", "Q", "R", "S", "T", "U", "V", "W", "X", "Y", "Z" >>

DigitSeq == << "0", "1", "2", "3", "4", "5", "6", "7", "8", "9" >>

Range(f) == { f[k] : k \in DOMAIN f }

\* The long s: a letter for Unicode, outside [a-zA-Z0-9].
LongS == "U+017F"


\* String.prototype.toLowerCase, one code unit.
LowerCaseOf == [c \in Range(UpperSeq) |->
                   LowerSeq[CHOOSE k \in DOMAIN UpperSeq : UpperSeq[k] = c]]

toLowerCaseChar(c) == IF c \in DOMAIN LowerCaseOf THEN LowerCaseOf[c] ELSE c

\* String.prototype.toUpperCase, one code unit.
UpperCaseOf == [c \in Range(LowerSeq) |->
                   UpperSeq[CHOOSE k \in DOMAIN LowerSeq : LowerSeq[k] = c]]

toUpperCaseChar(c) ==
    IF c \in DOMAIN UpperCaseOf THEN UpperCaseOf[c]
    ELSE IF c = LongS THEN "S" ELSE c

\* The code units below U+0080 (every code unit other than the long s here).
IsAscii(c) == c # LongS

\* The character class [a-zA-Z0-9] of the three regular expressions.
AlnumClass == Range(LowerSeq) \cup Range(UpperSeq) \cup Range(DigitSeq)

\* The character class [a-zA-Z].
LetterClass == Range(LowerSeq) \cup Range(UpperSeq)

\* Mutant of MatchesNonAlnum: the class written [^a-zA-Z], digits deleted too.
MatchesNonLetter(c) == c \notin LetterClass

\* /[^a-zA-Z0-9]/g : the code units that s.replace(..., '') deletes.
MatchesNonAlnum(c) == c \notin AlnumClass

\* Mutant of RegExpCanonicalize: the u flag added, so that simple case
\* folding applies and the long s folds to "S".
RegExpCanonicalizeUnicode(c) == toUpperCaseChar(c)

\* Canonicalize of a regular expression with the i flag and without the u
\* flag: the upper-case form, except that a non-ASCII code unit is never
\* folded to an ASCII one.
RegExpCanonicalize(c) ==
    LET cu == toUpperCaseChar(c)
    IN  IF ~IsAscii(c) /\ IsAscii(cu) THEN c ELSE cu

\* /[a-zA-Z0-9]/i.test(ch)
TestAlnumIgnoreCase(c) ==
    \E d \in AlnumClass : RegExpCanonicalize(d) = RegExpCanonicalize(c)

\* ------------------------------------------------------------ JS strings
toLowerCase(s) == [k \in DOMAIN s |-> toLowerCaseChar(s[k])]

\* s.replace(/[^a-zA-Z0-9]/g, '')
RECURSIVE replaceNonAlnum(_)
replaceNonAlnum(s) ==
    IF s = << >> THEN << >>
    ELSE IF MatchesNonAlnum(Head(s)) THEN replaceNonAlnum(Tail(s))
         ELSE << Head(s) >> \o replaceNonAlnum(Tail(s))

\* s[i], 0-based
At(s, i) == s[i + 1]

Clamp(x, len) == IF x < 0 THEN 0 ELSE IF x > len THEN len ELSE x

\* Mutant of substring: String.prototype.substr(a, length) in its place.
substr(s, a, b) ==
    LET ca == Clamp(a, Len(s))
        hi == Clamp(ca + b, Len(s))
    IN  SubSeq(s, ca + 1, hi)

\* String.prototype.substring(a, b): both ends clamped to [0, length] and
\* swapped when a > b.  NaN (see ArrayGet) counts as 0.
substring(s, a, b) ==
    LET ca == Clamp(a, Len(s))
        cb == Clamp(b, Len(s))
        lo == IF ca <= cb THEN ca ELSE cb
        hi == IF ca <= cb THEN cb ELSE ca
    IN  SubSeq(s, lo + 1, hi)

\* arr[k]: an element, or undefined outside the array.  undefined is written
\* -1: the only uses are substring(arr[k], arr[k] + 1) and
\* substring(arr[j], arr[k] + 1), where undefined and undefined + 1 = NaN
\* both act as 0, as -1 and -1 + 1 do.
ArrayGet(arr, k) == IF k + 1 \in DOMAIN arr THEN arr[k + 1] ELSE -1

\* The value of a property that was never set.
Undefined == << "undefined" >>

\* ------------------------------------------------------- preprocessString
\* The for loop of preprocessString, from offset i on.
RECURSIVE buildIndexMapping(_, _)
buildIndexMapping(originalStr, i) ==
    IF i >= Len(originalStr) THEN << >>
    ELSE IF TestAlnumIgnoreCase(At(originalStr, i))
         THEN << i >> \o buildIndexMapping(originalStr, i + 1)
         ELSE buildIndexMapping(originalStr, i + 1)

\* The values of req.body.inputString that are not strings: the property
\* missing, null, the numbers 0 and 42, and an object.  A string is a sequence
\* of code units, and these are no code units.
JsNull == << "null" >>

JsZero == << "number 0" >>

JsNumber == << "number 42" >>

JsObject == << "object {}" >>

NonStrings == {Undefined, JsNull, JsZero, JsNumber, JsObject}

\* typeof v === 'string'
IsString(v) == v \notin NonStrings

\* !v is false
Truthy(v) == v \notin {<< >>, Undefined, JsNull, JsZero}

\* if (!str || typeof str !== 'string') takes the first return.
preprocessString(s) ==
    IF ~Truthy(s) \/ ~IsString(s)
    THEN [processedStr |-> << >>, indexMapping |-> << >>, originalStr |-> Undefined]
    ELSE LET processedStr == toLowerCase(replaceNonAlnum(s))
         IN  IF Len(processedStr) = 0
             THEN [processedStr |-> processedStr, indexMapping |-> << >>,
                   originalStr |-> Undefined]
             ELSE [processedStr |-> processedStr,
                   indexMapping |-> buildIndexMapping(s, 0),
                   originalStr |-> s]

\* ------------------------------------------------------ validatePalindrome
validatePalindrome(str) ==
    IF str = << >> THEN FALSE
    ELSE LET processed == toLowerCase(replaceNonAlnum(str))
         IN  IF Len(processed) <= 1 THEN TRUE
             ELSE \A i \in 0 .. (Len(processed) \div 2) - 1 :
                      At(processed, i) = At(processed, Len(processed) - 1 - i)

\* ------------------------------------------------- results of one call
NoRet == [kind |-> "none", value |-> << >>]

Returned(v) == [kind |-> "returned", value |-> v]

\* TypeError: a method called on undefined.
Threw == [kind |-> "threw", value |-> << >>]

\* Mutant of origSubstring: the end offset taken as exclusive (the + 1 lost).
origSubstringExclusive(d, a, b) ==
    IF d.originalStr = Undefined THEN Threw
    ELSE Returned(substring(d.originalStr, a, b - 1))

\* originalStr.substring(a, b)
origSubstring(d, a, b) ==
    IF d.originalStr = Undefined THEN Threw
    ELSE Returned(substring(d.originalStr, a, b))

\* The locals of one call of an algorithm.  pc is the statement reached;
\* dpLPS calls maxStart "start".
EntryLocals ==
    [pc |-> "entry", i |-> 0, left |-> 0, right |-> 0,
     maxLength |-> 0, maxStart |-> 0, ret |-> NoRet]

Done(l, r) == [l EXCEPT !.pc = "done", !.ret = r]

\* Mutant of whileCond: the right end stops one character early.
whileCondShort(d, l) ==
    /\ l.left >= 0
    /\ l.right < Len(d.processedStr) - 1
    /\ At(d.processedStr, l.left) = At(d.processedStr, l.right)

\* The loop condition without the comparison of the two characters.
whileCondInBounds(d, l) ==
    /\ l.left >= 0
    /\ l.right < Len(d.processedStr)

\* left >= 0 && right < n && processedStr[left] === processedStr[right]
whileCond(d, l) ==
    /\ l.left >= 0
    /\ l.right < Len(d.processedStr)
    /\ At(d.processedStr, l.left) = At(d.processedStr, l.right)

\* ---------------------------------------------------------------- naiveLPS
\* Mutant of naiveExpand: the comparison reversed, so the best span is
\* never updated.
naiveExpandReversed(l) ==
    LET currentLength == l.right - l.left + 1
        b == IF currentLength < l.maxLength
             THEN [l EXCEPT !.maxLength = currentLength, !.maxStart = l.left]
             ELSE l
    IN  [b EXCEPT !.left = l.left - 1, !.right = l.right + 1]

\* Mutant of naiveExpand: a span of equal length replaces the best span.
naiveExpandOnTies(l) ==
    LET currentLength == l.right - l.left + 1
        b == IF currentLength >= l.maxLength
             THEN [l EXCEPT !.maxLength = currentLength, !.maxStart = l.left]
             ELSE l
    IN  [b EXCEPT !.left = l.left - 1, !.right = l.right + 1]

\* The body of the while loop, moving right and leaving left where it is.
naiveExpandRight(l) ==
    LET currentLength == l.right - l.left + 1
        b == IF currentLength > l.maxLength
             THEN [l EXCEPT !.maxLength = currentLength, !.maxStart = l.left]
             ELSE l
    IN  [b EXCEPT !.right = l.right + 1]

\* The body of either while loop of naiveLPS.
naiveExpand(l) ==
    LET currentLength == l.right - l.left + 1
        b == IF currentLength > l.maxLength
             THEN [l EXCEPT !.maxLength = currentLength, !.maxStart = l.left]
             ELSE l
    IN  [b EXCEPT !.left = l.left - 1, !.right = l.right + 1]

\* From "Special case" to the return statement.
naiveFinish(d, l) ==
    LET n == Len(d.processedStr)
        l1 == IF l.maxLength = 0 /\ n > 0
              THEN [l EXCEPT !.maxLength = 1, !.maxStart = 0]
              ELSE l
        processedPalindrome ==
            substring(d.processedStr, l1.maxStart, l1.maxStart + l1.maxLength)
    IN  IF l.maxLength = 0 /\ ~(n > 0) THEN Done(l, Returned(<< >>))
        ELSE IF ~validatePalindrome(processedPalindrome)
        THEN IF n > 0
             THEN Done(l1, origSubstring(d, ArrayGet(d.indexMapping, 0),
                                            ArrayGet(d.indexMapping, 0) + 1))
             ELSE Done(l1, Returned(<< >>))
        ELSE Done(l1, origSubstring(d,
                 ArrayGet(d.indexMapping, l1.maxStart),
                 ArrayGet(d.indexMapping, l1.maxStart + l1.maxLength - 1) + 1))

\* One step of naiveLPS(processedStr, indexMapping, originalStr).
naiveStep(d, l) ==
    LET n == Len(d.processedStr)
    IN  CASE l.pc = "entry" ->
               [l EXCEPT !.pc = "for", !.maxLength = 0, !.maxStart = 0, !.i = 0]
          [] l.pc = "for" ->
               IF l.i < n
               THEN [l EXCEPT !.pc = "odd", !.left = l.i, !.right = l.i]
               ELSE [l EXCEPT !.pc = "finish"]
          [] l.pc = "odd" ->
               IF whileCond(d, l) THEN naiveExpand(l)
               ELSE [l EXCEPT !.pc = "even", !.left = l.i, !.right = l.i + 1]
          [] l.pc = "even" ->
               IF whileCond(d, l) THEN naiveExpand(l)
               ELSE [l EXCEPT !.pc = "for", !.i = l.i + 1]
          [] l.pc = "finish" -> naiveFinish(d, l)

\* ------------------------------------------------------------------- dpLPS
\* The body of the while loop, taking a span of the same length as the best.
dpExpandOnTies(l) ==
    LET currentLength == l.right - l.left + 1
        b == IF currentLength >= l.maxLength
             THEN [l EXCEPT !.maxLength = currentLength, !.maxStart = l.left]
             ELSE l
    IN  [b EXCEPT !.left = l.left - 1, !.right = l.right + 1]

\* The body of the while loop of expandAroundCenter.
dpExpand(l) ==
    LET currentLength == l.right - l.left + 1
        b == IF currentLength > l.maxLength
             THEN [l EXCEPT !.maxLength = currentLength, !.maxStart = l.left]
             ELSE l
    IN  [b EXCEPT !.left = l.left - 1, !.right = l.right + 1]

\* The base cases and the initial best span.
dpEntry(d, l) ==
    LET n == Len(d.processedStr)
    IN  IF n = 0 THEN Done(l, Returned(<< >>))
        ELSE IF n = 1
        THEN Done(l, origSubstring(d, ArrayGet(d.indexMapping, 0),
                                      ArrayGet(d.indexMapping, 0) + 1))
        ELSE [l EXCEPT !.pc = "for", !.maxStart = 0, !.maxLength = 1, !.i = 0]

\* From "Get the processed palindrome" to the return statement.
dpFinish(d, l) ==
    LET processedPalindrome ==
            substring(d.processedStr, l.maxStart, l.maxStart + l.maxLength)
    IN  IF ~validatePalindrome(processedPalindrome)
        THEN Done(l, origSubstring(d, ArrayGet(d.indexMapping, 0),
                                      ArrayGet(d.indexMapping, 0) + 1))
        ELSE Done(l, origSubstring(d,
                 ArrayGet(d.indexMapping, l.maxStart),
                 ArrayGet(d.indexMapping, l.maxStart + l.maxLength - 1) + 1))

\* One step of dpLPS(processedStr, indexMapping, originalStr).
dpStep(d, l) ==
    LET n == Len(d.processedStr)
    IN  CASE l.pc = "entry" -> dpEntry(d, l)
          [] l.pc = "for" ->
               IF l.i < n
               THEN [l EXCEPT !.pc = "odd", !.left = l.i, !.right = l.i]
               ELSE [l EXCEPT !.pc = "finish"]
          [] l.pc = "odd" ->
               IF whileCond(d, l) THEN dpExpand(l)
               ELSE IF l.i + 1 < n
               THEN [l EXCEPT !.pc = "even", !.left = l.i, !.right = l.i + 1]
               ELSE [l EXCEPT !.pc = "for", !.i = l.i + 1]
          [] l.pc = "even" ->
               IF whileCond(d, l) THEN dpExpand(l)
               ELSE [l EXCEPT !.pc = "for", !.i = l.i + 1]
          [] l.pc = "finish" -> dpFinish(d, l)

\* The body of the while loop, taking a span of the same length as the best.
manacherExpandOnTies(l) ==
    LET currentLength == l.right - l.left + 1
        b == IF currentLength >= l.maxLength
             THEN [l EXCEPT !.maxLength = currentLength, !.maxStart = l.left]
             ELSE l
    IN  [b EXCEPT !.left = l.left - 1, !.right = l.right + 1]

\* ------------------------------------------------------------- manacherLPS
\* The body of either while loop of manacherLPS.
manacherExpand(l) ==
    LET currentLength == l.right - l.left + 1
        b == IF currentLength > l.maxLength
             THEN [l EXCEPT !.maxLength = currentLength, !.maxStart = l.left]
             ELSE l
    IN  [b EXCEPT !.left = l.left - 1, !.right = l.right + 1]

\* Mutant of manacherEntry: the two special cases merged into one that
\* returns the empty string.
manacherEntryMerged(d, l) ==
    IF Len(d.processedStr) <= 1 THEN Done(l, Returned(<< >>))
    ELSE [l EXCEPT !.pc = "oddfor", !.maxLength = 1, !.maxStart = 0, !.i = 0]

\* The special cases and the initial best span.
manacherEntry(d, l) ==
    IF Len(d.processedStr) = 0 THEN Done(l, Returned(<< >>))
    ELSE IF Len(d.processedStr) = 1
    THEN Done(l, origSubstring(d, ArrayGet(d.indexMapping, 0),
                                  ArrayGet(d.indexMapping, 0) + 1))
    ELSE [l EXCEPT !.pc = "oddfor", !.maxLength = 1, !.maxStart = 0, !.i = 0]

\* Mutant of manacherEvenFor: the loop bound one too small.
manacherEvenForShort(d, l) ==
    LET n == Len(d.processedStr)
    IN  IF l.i < n - 2
        THEN IF At(d.processedStr, l.i) = At(d.processedStr, l.i + 1)
             THEN [l EXCEPT !.pc = "even", !.left = l.i, !.right = l.i + 1]
             ELSE [l EXCEPT !.i = l.i + 1]
        ELSE [l EXCEPT !.pc = "finish"]

\* The head of the second for loop: the next even centre, if any.
manacherEvenFor(d, l) ==
    LET n == Len(d.processedStr)
    IN  IF l.i < n - 1
        THEN IF At(d.processedStr, l.i) = At(d.processedStr, l.i + 1)
             THEN [l EXCEPT !.pc = "even", !.left = l.i, !.right = l.i + 1]
             ELSE [l EXCEPT !.i = l.i + 1]
        ELSE [l EXCEPT !.pc = "finish"]

\* From "Get the palindromic substring" to the return statement.
manacherFinish(d, l) ==
    LET processedPalindrome ==
            substring(d.processedStr, l.maxStart, l.maxStart + l.maxLength)
    IN  IF ~validatePalindrome(processedPalindrome)
        THEN Done(l, origSubstring(d, ArrayGet(d.indexMapping, 0),
                                      ArrayGet(d.indexMapping, 0) + 1))
        ELSE Done(l, origSubstring(d,
                 ArrayGet(d.indexMapping, l.maxStart),
                 ArrayGet(d.indexMapping, l.maxStart + l.maxLength - 1) + 1))

\* One step of manacherLPS(processedStr, indexMapping, originalStr).
manacherStep(d, l) ==
    LET n == Len(d.processedStr)
    IN  CASE l.pc = "entry" -> manacherEntry(d, l)
          [] l.pc = "oddfor" ->
               IF l.i < n
               THEN [l EXCEPT !.pc = "odd", !.left = l.i - 1, !.right = l.i + 1]
               ELSE [l EXCEPT !.pc = "evenfor", !.i = 0]
          [] l.pc = "odd" ->
               IF whileCond(d, l) THEN manacherExpand(l)
               ELSE [l EXCEPT !.pc = "oddfor", !.i = l.i + 1]
          [] l.pc = "evenfor" -> manacherEvenFor(d, l)
          [] l.pc = "even" ->
               IF whileCond(d, l) THEN manacherExpand(l)
               ELSE [l EXCEPT !.pc = "evenfor", !.i = l.i + 1]
          [] l.pc = "finish" -> manacherFinish(d, l)

\* ------------------------------------------------------------- the calls
AlgorithmNames == {"naive", "dp", "manacher"}

\* algorithm.fn, one step
algorithmStep(name, d, l) ==
    CASE name = "naive" -> naiveStep(d, l)
      [] name = "dp" -> dpStep(d, l)
      [] name = "manacher" -> manacherStep(d, l)

\* algorithmFn(processedStr, indexMapping, originalStr), run to its return.
RECURSIVE runAlgorithm(_, _, _)
runAlgorithm(name, d, l) ==
    IF l.pc = "done" THEN l.ret
    ELSE runAlgorithm(name, d, algorithmStep(name, d, l))

algorithmFn(name, d) == runAlgorithm(name, d, EntryLocals)

\* ------------------------------------------------------ measurePerformance
\* The budget, in ms.
MAX_EXECUTION_TIME == 120000

WarmupRuns == 2

\* The iteration tiers.
iterationsFor(n) ==
    IF n < 1000 THEN 7
    ELSE IF n < 5000 THEN 5
    ELSE IF n < 20000 THEN 3
    ELSE 1

\* The samples keep the precision of the code: a time is in 0.001 ms, a
\* memory delta in bytes (1/1024 KB).  What is reported is in 0.01 ms and
\* 0.01 KB.
TimeUnit == 1000

MemoryUnit == 1024

\* Math.max(0, (finalMemory - baselineMemory) / 1024), heap sizes in bytes;
\* the sample is in 1/1024 KB.
memoryUsageOf(heapDelta) == IF heapDelta > 0 THEN heapDelta ELSE 0

\* arr.sort((a, b) => a - b)
sortNumeric(arr) == SortSeq(arr, LAMBDA a, b : a < b)

\* arr.slice(from, to)
slice(arr, from, to) == SubSeq(arr, from + 1, to)

RECURSIVE sum(_)
sum(arr) == IF arr = << >> THEN 0 ELSE Head(arr) + sum(Tail(arr))

\* x.toFixed(2) of x = numerator / denominator >= 0, in hundredths: the
\* nearest hundredth, the larger of two equally near.
toFixed2(numerator, denominator) ==
    LET whole == numerator \div denominator
        rest == numerator % denominator
    IN  whole * 100 + (2 * rest * 100 + denominator) \div (2 * denominator)

\* parseFloat((total / count).toFixed(2)), total being in 1/unit.
average(total, count, unit) == toFixed2(total, count * unit)

\* Mutant of trimOutliers: only the smallest samples are cut.
trimOutliersLow(sorted) ==
    IF Len(sorted) >= 5
    THEN LET cutoff == (Len(sorted) * 2) \div 10
         IN  slice(sorted, cutoff, Len(sorted))
    ELSE sorted

\* The outlier removal: the middle 60% once there are 5 samples.
trimOutliers(sorted) ==
    IF Len(sorted) >= 5
    THEN LET cutoff == (Len(sorted) * 2) \div 10
         IN  slice(sorted, cutoff, Len(sorted) - cutoff)
    ELSE sorted

\* An object measurePerformance returns: keys are the properties it has, and
\* a property it lacks reads as FALSE, 0 or the empty string.
Outcome(keys, result, executionTime, memoryUsage) ==
    [keys |-> keys, result |-> result, executionTime |-> executionTime,
     memoryUsage |-> memoryUsage, timedOut |-> FALSE,
     memoryMeasurementIssue |-> FALSE, iterations |-> 0,
     allTimes |-> << >>, error |-> << >>]

\* return { result: '', executionTime: 0, memoryUsage: 0 }
emptyOutcome == Outcome({"result", "executionTime", "memoryUsage"}, << >>, 0, 0)

timedOutMessage == << "Result found but took longer than 120 seconds" >>

\* The object returned when timedOut is set.
timedOutOutcome ==
    [Outcome({"result", "executionTime", "memoryUsage", "timedOut"},
             timedOutMessage, MAX_EXECUTION_TIME * 100, 0)
     EXCEPT !.timedOut = TRUE]

\* The message of the TypeError of originalStr.substring.
errorMessage == << "Cannot read properties of undefined" >>

\* The message of the ReferenceError of performance.now() where the runtime
\* has no global performance (Node.js before 16).
performanceMessage == << "performance is not defined" >>

\* The object returned by the catch block.
errorOutcome(message) ==
    [Outcome({"result", "executionTime", "memoryUsage", "error"},
             << "Error: " >> \o message, 0, 0)
     EXCEPT !.error = message]

\* From the sort to the final return statement.
measuredOutcome(firstResult, times, mems) ==
    LET executionTimes == trimOutliers(sortNumeric(times))
        memoryUsages == trimOutliers(sortNumeric(mems))
        avgMemoryUsage == sum(memoryUsages)
    IN  [Outcome({"result", "executionTime", "memoryUsage", "memoryMeasurementIssue",
                  "iterations", "allTimes"},
                 firstResult,
                 average(sum(executionTimes), Len(executionTimes), TimeUnit),
                 average(sum(memoryUsages), Len(memoryUsages), MemoryUnit))
         EXCEPT !.memoryMeasurementIssue = (avgMemoryUsage <= 0),
                !.iterations = Len(executionTimes),
                !.allTimes = executionTimes]

\* freshData of measureIsolated.
freshData(s, d) ==
    [processedStr |-> d.processedStr, indexMapping |-> d.indexMapping,
     originalStr |-> s]

\* The locals of measurePerformance before it is called.  elapsed is the
\* wall-clock time since the timer was armed (0.001 ms), heapDelta the
\* finalMemory - baselineMemory of the last timed run (bytes), warmups and
\* timed the calls of algorithmFn made by the two loops.
IdleMeasure ==
    [pc |-> "idle", algorithmName |-> "none", iterations |-> 0, i |-> 0,
     timedOut |-> FALSE, timerArmed |-> FALSE, firstResult |-> << >>,
     executionTimes |-> << >>, memoryUsages |-> << >>, out |-> emptyOutcome,
     elapsed |-> 0, heapDelta |-> 0, warmups |-> 0, timed |-> 0]

\* Mutant of measureEntry: the check for an empty processedStr left out.
measureEntryUnguarded(m, d) ==
    [m EXCEPT !.pc = "warmup", !.i = 0,
              !.iterations = iterationsFor(Len(d.processedStr)),
              !.timedOut = FALSE, !.timerArmed = TRUE,
              !.executionTimes = << >>, !.memoryUsages = << >>]

\* From the top of measurePerformance to the arming of the timer.
measureEntry(m, d) ==
    IF Len(d.processedStr) = 0
    THEN [m EXCEPT !.pc = "returned", !.out = emptyOutcome]
    ELSE [m EXCEPT !.pc = "warmup", !.i = 0,
                   !.iterations = iterationsFor(Len(d.processedStr)),
                   !.timedOut = FALSE, !.timerArmed = TRUE,
                   !.executionTimes = << >>, !.memoryUsages = << >>]

\* Mutant of measureWarmup: the loop leaves after one warm-up run.
measureWarmupOnce(m, d, time) ==
    IF m.i < WarmupRuns - 1
    THEN IF algorithmFn(m.algorithmName, d).kind = "threw"
         THEN [m EXCEPT !.pc = "returned", !.out = errorOutcome(errorMessage),
                        !.warmups = m.warmups + 1]
         ELSE [m EXCEPT !.i = m.i + 1, !.warmups = m.warmups + 1,
                        !.elapsed = m.elapsed + time]
    ELSE [m EXCEPT !.pc = "measure", !.i = 0]

\* One pass of the warm-up loop, which took time; or its exit.
measureWarmup(m, d, time) ==
    IF m.i < WarmupRuns
    THEN IF algorithmFn(m.algorithmName, d).kind = "threw"
         THEN [m EXCEPT !.pc = "returned", !.out = errorOutcome(errorMessage),
                        !.warmups = m.warmups + 1]
         ELSE [m EXCEPT !.i = m.i + 1, !.warmups = m.warmups + 1,
                        !.elapsed = m.elapsed + time]
    ELSE [m EXCEPT !.pc = "measure", !.i = 0]

\* One pass of the measurement loop, whose run took time and left heapDelta
\* more bytes on the heap; or its exit.  Without a global performance the
\* first performance.now() throws before the algorithm is called.
measureIteration(m, d, performance, time, heapDelta) ==
    IF m.i < m.iterations
    THEN IF ~performance
         THEN [m EXCEPT !.pc = "returned",
                        !.out = errorOutcome(performanceMessage)]
         ELSE
         LET r == algorithmFn(m.algorithmName, d)
         IN  IF r.kind = "threw"
             THEN [m EXCEPT !.pc = "returned", !.out = errorOutcome(errorMessage),
                            !.timed = m.timed + 1]
             ELSE [m EXCEPT
                     !.firstResult = IF m.i = 0 THEN r.value ELSE m.firstResult,
                     !.executionTimes = Append(m.executionTimes, time),
                     !.heapDelta = heapDelta,
                     !.memoryUsages = Append(m.memoryUsages, memoryUsageOf(heapDelta)),
                     !.elapsed = m.elapsed + time,
                     !.timed = m.timed + 1,
                     !.i = m.i + 1,
                     !.pc = IF m.timedOut THEN "finish" ELSE "measure"]
    ELSE [m EXCEPT !.pc = "finish"]

\* From clearTimeout to the return statement.
measureFinish(m) ==
    [m EXCEPT !.pc = "returned", !.timerArmed = FALSE,
              !.out = IF m.timedOut THEN timedOutOutcome
                      ELSE measuredOutcome(m.firstResult, m.executionTimes,
                                           m.memoryUsages)]

\* The callback of setTimeout.
timeoutCallback(m) == [m EXCEPT !.timedOut = TRUE, !.timerArmed = FALSE]

\* ------------------------------------------------------------------ inputs
\* Two letters, a capital, a digit, a space and a non-ASCII letter.
Alphabet == {"a", "b", "A", "1", " ", LongS}

StringsUpTo(n) == UNION { [1 .. k -> Alphabet] : k \in 0 .. n }

\* The inputs the specification names.
Babad == << "b", "a", "b", "a", "d" >>

Cbbd == << "c", "b", "b", "d" >>

Panama == << "A", " ", "m", "a", "n", " ", "a", " ", "p", "l", "a", "n", " ", "a",
             " ", "c", "a", "n", "a", "l", " ", "P", "a", "n", "a", "m", "a" >>

Inputs == StringsUpTo(MaxLen) \cup {Babad, Cbbd, Panama}

\* The inputs whose measurement is followed: the empty string, two strings
\* without a letter or digit, and two with some.
MeasureInputs ==
    { << >>, << " " >>, << LongS, " " >>, << "a" >>, << "A", " ", "b", "a" >> }

\* A run that alone outlasts MAX_EXECUTION_TIME, in 0.001 ms.
SlowRun == MAX_EXECUTION_TIME * TimeUnit + 1

\* What endTime - startTime can be for one run, in 0.001 ms: 0.004 ms and
\* more than the budget.
TimeSamples == {4, SlowRun}

\* The runtimes: with a global performance object (Node.js 16 and later) and
\* without one (Node.js 14, the oldest the README admits).
Environments == [performance : BOOLEAN]

\* The growth of heapUsed over one run, in bytes.
HeapDeltas == {-1024, 2048}

\* ------------------------------------------------------------------- state
VARIABLES
    inputString,   \* the raw text
    stage,         \* "start", then "preprocessed"
    data,          \* what preprocessString returned, once it has
    running,       \* the algorithm being run, or "none"
    locals,        \* its locals
    results,       \* what each algorithm returned
    measure,       \* the locals of measurePerformance
    env,           \* the runtime
    handler,       \* the locals of the /runAlgorithms handler
    eventLoop,     \* what the event loop has dispatched
    serverJs       \* the locals of a call of an algorithm of src/server.js

vars == << inputString, stage, data, running, locals, results, measure, env,
           handler, eventLoop, serverJs >>

\* The event loop when the first request is dispatched.
IdleLoop == [dispatched |-> 1]

\* No algorithm of src/server.js has been called.  fn is the function,
\* start, end and maxLength its best span (maxLen in manacherLPS), T, P, C, R
\* and i the locals of the main loop of manacherLPS, ret what it returned.
NoCall ==
    [pc |-> "idle", fn |-> "none", processedStr |-> << >>,
     indexMapping |-> << >>, start |-> 0, end |-> 0, maxLength |-> 0,
     T |-> << >>, P |-> << >>, C |-> 0, R |-> 0, i |-> 0, ret |-> << >>]

\* res before anything is sent.
NoResponse ==
    [status |-> 0, error |-> << >>, results |-> << >>, algorithmOrder |-> << >>,
     input |-> << >>]

\* The handler before a request has come.  order is algorithmExecutionOrder,
\* started the names measureIsolated has logged, results the entries of the
\* results object in the order of their insertion, timers the timers of
\* earlier measurements that are still armed.
IdleHandler ==
    [pc |-> "idle", order |-> << >>, started |-> << >>, results |-> << >>,
     timers |-> 0, response |-> NoResponse]

NoData == [processedStr |-> << >>, indexMapping |-> << >>, originalStr |-> Undefined]

Init ==
    /\ inputString \in Inputs
    /\ stage = "start"
    /\ data = NoData
    /\ running = "none"
    /\ locals = EntryLocals
    /\ results = [a \in AlgorithmNames |-> NoRet]
    /\ measure = IdleMeasure
    /\ env = [performance |-> TRUE]
    /\ handler = IdleHandler
    /\ eventLoop = IdleLoop
    /\ serverJs = NoCall

\* const { processedStr, indexMapping, originalStr } = preprocessString(s)
Preprocess ==
    /\ stage = "start"
    /\ stage' = "preprocessed"
    /\ data' = preprocessString(inputString)
    /\ UNCHANGED << eventLoop, serverJs,
                    inputString, running, locals, results, measure, env, handler >>

\* The algorithms are called in the order of the algorithms array.
NextToCall ==
    IF results["naive"] = NoRet THEN "naive"
    ELSE IF results["dp"] = NoRet THEN "dp"
    ELSE IF results["manacher"] = NoRet THEN "manacher"
    ELSE "none"

\* fn(processedStr, indexMapping, originalStr) is entered.
Call ==
    /\ stage = "preprocessed"
    /\ running = "none"
    /\ NextToCall # "none"
    /\ running' = NextToCall
    /\ locals' = EntryLocals
    /\ UNCHANGED << eventLoop, serverJs,
                    inputString, stage, data, results, measure, env, handler >>

\* The running algorithm executes its next statement.
Step ==
    /\ running # "none"
    /\ locals.pc # "done"
    /\ locals' = algorithmStep(running, data, locals)
    /\ UNCHANGED << eventLoop, serverJs,
                    inputString, stage, data, running, results, measure, env, handler >>

\* The running algorithm returns (or throws) to its caller.
Return ==
    /\ running # "none"
    /\ locals.pc = "done"
    /\ results' = [results EXCEPT ![running] = locals.ret]
    /\ running' = "none"
    /\ UNCHANGED << eventLoop, serverJs,
                    inputString, stage, data, locals, measure, env, handler >>

Next == Preprocess \/ Call \/ Step \/ Return

Spec == Init /\ [][Next]_vars

\* ------------------------------------------------- measuring one algorithm
InitMeasure ==
    /\ inputString \in MeasureInputs
    /\ stage = "start"
    /\ data = NoData
    /\ running = "none"
    /\ locals = EntryLocals
    /\ results = [a \in AlgorithmNames |-> NoRet]
    /\ measure = IdleMeasure
    /\ env \in Environments
    /\ handler = IdleHandler
    /\ eventLoop = IdleLoop
    /\ serverJs = NoCall

\* measurePerformance(algorithmFn, algorithmName, freshData) is entered.
MeasureCall ==
    /\ stage = "preprocessed"
    /\ running = "none"
    /\ NextToCall = "none"
    /\ measure.pc = "idle"
    /\ \E name \in AlgorithmNames :
           measure' = [IdleMeasure EXCEPT !.pc = "entry", !.algorithmName = name]
    /\ UNCHANGED << eventLoop, serverJs,
                    inputString, stage, data, running, locals, results, env,
                    handler >>

MeasureEntry ==
    /\ measure.pc = "entry"
    /\ measure' = measureEntry(measure, freshData(inputString, data))
    /\ UNCHANGED << eventLoop, serverJs,
                    inputString, stage, data, running, locals, results, env,
                    handler >>

MeasureWarmup ==
    /\ measure.pc = "warmup"
    /\ \E time \in TimeSamples :
           measure' = measureWarmup(measure, freshData(inputString, data), time)
    /\ UNCHANGED << eventLoop, serverJs,
                    inputString, stage, data, running, locals, results, env,
                    handler >>

MeasureIteration ==
    /\ measure.pc = "measure"
    /\ \E time \in TimeSamples, heapDelta \in HeapDeltas :
           measure' = measureIteration(measure, freshData(inputString, data),
                                       env.performance, time, heapDelta)
    /\ UNCHANGED << eventLoop, serverJs,
                    inputString, stage, data, running, locals, results, env,
                    handler >>

MeasureFinish ==
    /\ measure.pc = "finish"
    /\ measure' = measureFinish(measure)
    /\ UNCHANGED << eventLoop, serverJs,
                    inputString, stage, data, running, locals, results, env,
                    handler >>

\* The timer fires: its callback runs once measurePerformance is off the
\* stack, which is synchronous from the arming to its return.
TimeoutFires ==
    /\ measure.pc = "returned"
    /\ measure.timerArmed
    /\ handler.pc = "idle"
    /\ measure' = timeoutCallback(measure)
    /\ UNCHANGED << eventLoop, serverJs,
                    inputString, stage, data, running, locals, results, env,
                    handler >>

NextMeasure ==
    \/ Preprocess \/ Call \/ Step \/ Return
    \/ MeasureCall \/ MeasureEntry \/ MeasureWarmup \/ MeasureIteration
    \/ MeasureFinish \/ TimeoutFires

SpecMeasure == InitMeasure /\ [][NextMeasure]_vars

\* ------------------------------------------------- POST /runAlgorithms
\* The algorithms array.
algorithms == << "naive", "dp", "manacher" >>

\* algorithms.find(a => a.name === 'manacher')
manacherAlgorithm ==
    algorithms[CHOOSE k \in DOMAIN algorithms : algorithms[k] = "manacher"]

\* algorithms.filter(a => a.name !== 'manacher')
otherAlgorithms == SelectSeq(algorithms, LAMBDA a : a # "manacher")

\* [arr[i], arr[j]] = [arr[j], arr[i]], i and j counted from 0.
swap(arr, i, j) ==
    [k \in DOMAIN arr |-> IF k = i + 1 THEN arr[j + 1]
                          ELSE IF k = j + 1 THEN arr[i + 1] ELSE arr[k]]

\* The shuffle loop over an array of two, which it passes once with i = 1:
\* j is Math.floor(Math.random() * 2).
shuffle(arr, j) == swap(arr, Len(arr) - 1, j)

\* Mutant of algorithmExecutionOrder: the whole array is shuffled, manacher
\* not taken out first.
algorithmExecutionOrderAllShuffled(j) == shuffle(algorithms, j)

\* algorithmExecutionOrder = [manacherAlgorithm, ...otherAlgorithms]
algorithmExecutionOrder(j) == << manacherAlgorithm >> \o shuffle(otherAlgorithms, j)

\* res.status(400).json({ error: 'Input string is required' })
badRequest == [NoResponse EXCEPT !.status = 400,
                                 !.error = << "Input string is required" >>]

\* What runSequentially stores under results[algorithm.name].
resultEntry(name, out) ==
    [name |-> name, lps |-> out.result, executionTime |-> out.executionTime,
     memoryUsage |-> out.memoryUsage, timedOut |-> out.timedOut,
     memoryMeasurementIssue |-> out.memoryMeasurementIssue,
     iterations |-> out.iterations, allTimes |-> out.allTimes]

\* One element of finalResults: memoryUsed in 0.01 bytes.  keys are the
\* properties it has; timedOut and memoryMeasurementIssue, which it lacks,
\* read as FALSE.
finalResult(e) ==
    [keys |-> {"algorithm", "result", "executionTime", "memoryUsed", "iterations"},
     algorithm |-> e.name, result |-> e.lps, executionTime |-> e.executionTime,
     memoryUsed |-> e.memoryUsage * 1024,
     iterations |-> IF e.iterations = 0 THEN 1 ELSE e.iterations,
     timedOut |-> FALSE, memoryMeasurementIssue |-> FALSE]

\* The preview: the first 100 code units.
inputPreview(s) == IF IsString(s) /\ Len(s) > 100 THEN substring(s, 0, 100) ELSE s

\* res.json({...}); fullLength and maxPalindromeLength, which nothing reads
\* back, are left out.
okResponse(h, s) ==
    [NoResponse EXCEPT !.status = 200,
                       !.results = [k \in DOMAIN h.results |-> finalResult(h.results[k])],
                       !.algorithmOrder = h.order,
                       !.input = inputPreview(s)]

\* The bodies posted: inputString missing, null, 0, 42, an object, and five
\* strings.
RequestBodies ==
    { Undefined, JsNull, JsZero, JsNumber, JsObject,
      << >>, << " " >>, << "a" >>, << "a", "b" >>, << "A", " ", "b", "a" >> }

\* The run times followed within a request, in 0.001 ms.
RequestTimeSamples == {4}

InitServer ==
    /\ inputString \in RequestBodies
    /\ stage = "start"
    /\ data = NoData
    /\ running = "none"
    /\ locals = EntryLocals
    /\ results = [a \in AlgorithmNames |-> NoRet]
    /\ measure = IdleMeasure
    /\ env \in Environments
    /\ handler = IdleHandler
    /\ eventLoop = IdleLoop
    /\ serverJs = NoCall

\* The handler from its entry to the call of runSequentially.
HandleRequest ==
    /\ handler.pc = "idle"
    /\ stage = "start"
    /\ IF ~Truthy(inputString)
       THEN /\ handler' = [handler EXCEPT !.pc = "responded", !.response = badRequest]
            /\ UNCHANGED << stage, data >>
       ELSE /\ stage' = "preprocessed"
            /\ data' = preprocessString(inputString)
            /\ \E j \in 0 .. 1 :
                   handler' = [handler EXCEPT !.pc = "loop",
                                              !.order = algorithmExecutionOrder(j)]
    /\ UNCHANGED << eventLoop, serverJs,
                    inputString, running, locals, results, measure, env >>

\* The for-of loop of runSequentially calls measureIsolated, which logs the
\* name and enters measurePerformance.
MeasureIsolated ==
    /\ handler.pc = "loop"
    /\ Len(handler.results) < Len(handler.order)
    /\ LET name == handler.order[Len(handler.results) + 1]
       IN  /\ measure' = [IdleMeasure EXCEPT !.pc = "entry", !.algorithmName = name]
           /\ handler' = [handler EXCEPT
                            !.pc = "measuring",
                            !.started = Append(handler.started, name),
                            !.timers = IF measure.timerArmed THEN handler.timers + 1
                                       ELSE handler.timers]
    /\ UNCHANGED << eventLoop, serverJs,
                    inputString, stage, data, running, locals, results, env >>

RequestWarmup ==
    /\ handler.pc = "measuring"
    /\ measure.pc = "warmup"
    /\ \E time \in RequestTimeSamples :
           measure' = measureWarmup(measure, freshData(inputString, data), time)
    /\ UNCHANGED << eventLoop, serverJs,
                    inputString, stage, data, running, locals, results, env,
                    handler >>

RequestIteration ==
    /\ handler.pc = "measuring"
    /\ measure.pc = "measure"
    /\ \E time \in RequestTimeSamples, heapDelta \in HeapDeltas :
           measure' = measureIteration(measure, freshData(inputString, data),
                                       env.performance, time, heapDelta)
    /\ UNCHANGED << eventLoop, serverJs,
                    inputString, stage, data, running, locals, results, env,
                    handler >>

\* Mutant of Resume: an error-marked result ends the request with the
\* 500 response.
ResumeFailing ==
    /\ handler.pc = "measuring"
    /\ measure.pc = "returned"
    /\ handler' =
          IF "error" \in measure.out.keys
          THEN [handler EXCEPT !.pc = "responded",
                               !.response = [NoResponse EXCEPT
                                               !.status = 500,
                                               !.error = measure.out.error]]
          ELSE [handler EXCEPT
                  !.pc = "loop",
                  !.results = Append(handler.results,
                                     resultEntry(measure.algorithmName, measure.out))]
    /\ UNCHANGED << eventLoop, serverJs,
                    inputString, stage, data, running, locals, results, measure,
                    env >>

\* Mutant of Resume: the loop goes on without awaiting the result of the
\* measurement it started.
ResumeUnawaited ==
    /\ handler.pc = "measuring"
    /\ measure.pc # "entry"
    /\ handler' = [handler EXCEPT
                     !.pc = "loop",
                     !.results = Append(handler.results,
                                        resultEntry(measure.algorithmName, measure.out))]
    /\ UNCHANGED << eventLoop, serverJs,
                    inputString, stage, data, running, locals, results, measure,
                    env >>

\* The await resumes with what measureIsolated resolved.
Resume ==
    /\ handler.pc = "measuring"
    /\ measure.pc = "returned"
    /\ handler' = [handler EXCEPT
                     !.pc = "loop",
                     !.results = Append(handler.results,
                                        resultEntry(measure.algorithmName, measure.out))]
    /\ UNCHANGED << eventLoop, serverJs,
                    inputString, stage, data, running, locals, results, measure,
                    env >>

\* The then callback of runSequentially sends the response.
Respond ==
    /\ handler.pc = "loop"
    /\ Len(handler.results) = Len(handler.order)
    /\ handler' = [handler EXCEPT !.pc = "responded",
                                  !.response = okResponse(handler, inputString)]
    /\ UNCHANGED << eventLoop, serverJs,
                    inputString, stage, data, running, locals, results, measure,
                    env >>

\* A timer left armed by a measurement of the request fires, once the
\* response is out and the event loop is free.
RequestTimeoutFires ==
    /\ handler.pc = "responded"
    /\ \/ /\ measure.timerArmed
          /\ measure' = timeoutCallback(measure)
          /\ UNCHANGED handler
       \/ /\ handler.timers > 0
          /\ handler' = [handler EXCEPT !.timers = handler.timers - 1]
          /\ UNCHANGED measure
    /\ UNCHANGED << eventLoop, serverJs,
                    inputString, stage, data, running, locals, results, env >>

NextServer ==
    \/ HandleRequest \/ MeasureIsolated \/ MeasureEntry \/ RequestWarmup
    \/ RequestIteration \/ MeasureFinish \/ Resume \/ Respond
    \/ RequestTimeoutFires

SpecServer == InitServer /\ [][NextServer]_vars

\* ------------------------------------------------- one request after another
\* The requests the server is sent.
MaxRequests == 2

\* The bodies of the requests that follow one another: one without
\* inputString, one without a letter or digit, two with some.
ArrivingBodies == { Undefined, << " " >>, << "a" >>, << "a", "b" >> }

InitRequests ==
    /\ inputString \in ArrivingBodies
    /\ stage = "start"
    /\ data = NoData
    /\ running = "none"
    /\ locals = EntryLocals
    /\ results = [a \in AlgorithmNames |-> NoRet]
    /\ measure = IdleMeasure
    /\ env \in Environments
    /\ handler = IdleHandler
    /\ eventLoop = IdleLoop
    /\ serverJs = NoCall

\* The event loop takes the next request and calls the handler on it, the
\* armed timer of a measurement that returned counted with the other timers
\* that are armed, as though the await and the then callback, which resume
\* ahead of what the event loop has waiting, handed over to it.
NextRequestAtAwait ==
    /\ \/ handler.pc = "responded"
       \/ handler.pc = "measuring" /\ measure.pc = "returned"
       \/ handler.pc = "loop"
    /\ eventLoop.dispatched < MaxRequests
    /\ eventLoop' = [eventLoop EXCEPT !.dispatched = eventLoop.dispatched + 1]
    /\ \E body \in ArrivingBodies : inputString' = body
    /\ stage' = "start"
    /\ data' = NoData
    /\ measure' = IdleMeasure
    /\ handler' = [IdleHandler EXCEPT
                     !.timers = IF measure.timerArmed THEN handler.timers + 1
                                ELSE handler.timers]
    /\ UNCHANGED << serverJs, running, locals, results, env >>

\* The event loop takes the next request and calls the handler on it, once
\* the handler it called before and the callbacks that handler left to be
\* resumed have run: the armed timer of the last measurement is counted
\* with the other timers that are armed.
NextRequest ==
    /\ handler.pc = "responded"
    /\ eventLoop.dispatched < MaxRequests
    /\ eventLoop' = [eventLoop EXCEPT !.dispatched = eventLoop.dispatched + 1]
    /\ \E body \in ArrivingBodies : inputString' = body
    /\ stage' = "start"
    /\ data' = NoData
    /\ measure' = IdleMeasure
    /\ handler' = [IdleHandler EXCEPT
                     !.timers = IF measure.timerArmed THEN handler.timers + 1
                                ELSE handler.timers]
    /\ UNCHANGED << serverJs, running, locals, results, env >>

NextRequests == NextServer \/ NextRequest

SpecRequests == InitRequests /\ [][NextRequests]_vars

\* ------------------------------------------------------------ src/server.js
\* The three algorithms of src/server.js take the raw text and strip the
\* white space of it themselves.
Tab == "\t"

LineFeed == "\n"

\* /\s/ : the white space among the code units written here.
MatchesWhiteSpace(c) == c \in {" ", Tab, LineFeed}

\* s.replace(/\s/g, '')
RECURSIVE replaceWhiteSpace(_)
replaceWhiteSpace(s) ==
    IF s = << >> THEN << >>
    ELSE IF MatchesWhiteSpace(Head(s)) THEN replaceWhiteSpace(Tail(s))
         ELSE << Head(s) >> \o replaceWhiteSpace(Tail(s))

\* s.replace(/\s/g, '').toLowerCase()
stripLower(s) == toLowerCase(replaceWhiteSpace(s))

\* A call that returns ret.
ReturnFrom(c, ret) == [c EXCEPT !.pc = "done", !.ret = ret]

\* The k loop of naiveLPS: isPalindrome after it.
isPalindrome(processedSubStr) ==
    \A k \in 0 .. (Len(processedSubStr) \div 2) - 1 :
        At(processedSubStr, k) =
            At(processedSubStr, Len(processedSubStr) - k - 1)

\* The i and j loops of naiveLPS from (i, j) on; b holds maxLength, start
\* and end.
RECURSIVE naiveScan(_, _, _, _)
naiveScan(s, i, j, b) ==
    IF i >= Len(s) THEN b
    ELSE IF j >= Len(s) THEN naiveScan(s, i + 1, i + 1, b)
    ELSE LET processedSubStr == stripLower(substring(s, i, j + 1))
             b1 == IF isPalindrome(processedSubStr)
                      /\ Len(processedSubStr) > b.maxLength
                   THEN [maxLength |-> Len(processedSubStr),
                         start |-> i, end |-> j]
                   ELSE b
         IN  naiveScan(s, i, j + 1, b1)

\* naiveLPS(s) of src/server.js, for a text of at most 5000 characters.
naiveLPS(s) ==
    LET c == [NoCall EXCEPT !.fn = "naive"]
    IN  IF ~Truthy(s) \/ ~IsString(s) THEN ReturnFrom(c, << >>)
        ELSE IF Len(stripLower(s)) = 0 THEN ReturnFrom(c, << >>)
        ELSE LET b == naiveScan(s, 0, 0, [maxLength |-> 1, start |-> 0, end |-> 0])
             IN  ReturnFrom([c EXCEPT !.processedStr = stripLower(s),
                                      !.maxLength = b.maxLength,
                                      !.start = b.start, !.end = b.end],
                            substring(s, b.start, b.end + 1))

\* The loop that fills indexMapping in dpLPS and manacherLPS, from i on.
RECURSIVE fillIndexMapping(_, _)
fillIndexMapping(originalStr, i) ==
    IF i >= Len(originalStr) THEN << >>
    ELSE IF toLowerCaseChar(At(originalStr, i)) # " "
         THEN << i >> \o fillIndexMapping(originalStr, i + 1)
         ELSE fillIndexMapping(originalStr, i + 1)

\* table[i][j] of dpLPS once it is filled, i <= j.
RECURSIVE table(_, _, _)
table(processedStr, i, j) ==
    IF i = j THEN TRUE
    ELSE IF j = i + 1 THEN At(processedStr, i) = At(processedStr, j)
    ELSE table(processedStr, i + 1, j - 1)
         /\ At(processedStr, i) = At(processedStr, j)

\* "Check for substrings of length 2", from i on.
RECURSIVE dpPairs(_, _, _)
dpPairs(processedStr, i, b) ==
    IF i >= Len(processedStr) - 1 THEN b
    ELSE dpPairs(processedStr, i + 1,
                 IF At(processedStr, i) = At(processedStr, i + 1)
                 THEN [start |-> i, maxLength |-> 2] ELSE b)

\* "Check for lengths greater than 2", from (k, i) on.
RECURSIVE dpLonger(_, _, _, _)
dpLonger(processedStr, k, i, b) ==
    IF k > Len(processedStr) THEN b
    ELSE IF i >= Len(processedStr) - k + 1 THEN dpLonger(processedStr, k + 1, 0, b)
    ELSE LET j == i + k - 1
             b1 == IF table(processedStr, i, j) /\ k > b.maxLength
                   THEN [start |-> i, maxLength |-> k] ELSE b
         IN  dpLonger(processedStr, k, i + 1, b1)

\* originalStr.substring(indexMapping[start], indexMapping[start + length - 1] + 1)
mapBack(originalStr, indexMapping, start, length) ==
    substring(originalStr, ArrayGet(indexMapping, start),
              ArrayGet(indexMapping, start + length - 1) + 1)

\* dpLPS(s) of src/server.js, for a text of at most 10000 characters.
dpLPS(s) ==
    LET c == [NoCall EXCEPT !.fn = "dp"]
    IN  IF ~Truthy(s) \/ ~IsString(s) THEN ReturnFrom(c, << >>)
        ELSE IF Len(stripLower(s)) = 0 THEN ReturnFrom(c, << >>)
        ELSE LET processedStr == stripLower(s)
                 indexMapping == fillIndexMapping(s, 0)
                 b == dpLonger(processedStr, 3, 0,
                               dpPairs(processedStr, 0,
                                       [start |-> 0, maxLength |-> 1]))
             IN  ReturnFrom([c EXCEPT !.processedStr = processedStr,
                                      !.indexMapping = indexMapping,
                                      !.maxLength = b.maxLength,
                                      !.start = b.start],
                            mapBack(s, indexMapping, b.start, b.maxLength))

\* '#' + processedStr.split('').join('#') + '#'
RECURSIVE separated(_)
separated(processedStr) ==
    IF processedStr = << >> THEN << "#" >>
    ELSE << "#", Head(processedStr) >> \o separated(Tail(processedStr))

\* NaN, which no radius is: what Math.min gives when an argument is
\* undefined or NaN.
NaN == -1

\* Math.min(a, P[k])
minWithRead(a, P, k) ==
    IF k + 1 \notin DOMAIN P \/ At(P, k) = NaN THEN NaN
    ELSE IF a < At(P, k) THEN a ELSE At(P, k)

\* manacherLPS(s) of src/server.js from its entry to the main loop.
manacherLPSEntry(s) ==
    LET c == [NoCall EXCEPT !.fn = "manacher"]
    IN  IF ~Truthy(s) \/ ~IsString(s) THEN ReturnFrom(c, << >>)
        ELSE IF Len(stripLower(s)) = 0 THEN ReturnFrom(c, << >>)
        ELSE LET T == separated(stripLower(s))
             IN  [c EXCEPT !.pc = "mirror",
                           !.processedStr = stripLower(s),
                           !.indexMapping = fillIndexMapping(s, 0),
                           !.T = T, !.P = [k \in DOMAIN T |-> 0],
                           !.C = 0, !.R = 0, !.i = 1]

\* if (R > i) with P[i] = P[2 * C - i], the bound R - i left out.
manacherMirrorUnbounded(c) ==
    IF c.R > c.i
    THEN [c EXCEPT !.pc = "expand",
                   !.P[c.i + 1] = IF 2 * c.C - c.i + 1 \in DOMAIN c.P
                                  THEN At(c.P, 2 * c.C - c.i) ELSE NaN]
    ELSE [c EXCEPT !.pc = "expand"]

\* if (R > i) P[i] = Math.min(R - i, P[2 * C - i])
manacherMirror(c) ==
    IF c.R > c.i
    THEN [c EXCEPT !.pc = "expand",
                   !.P[c.i + 1] = minWithRead(c.R - c.i, c.P, 2 * c.C - c.i)]
    ELSE [c EXCEPT !.pc = "expand"]

\* The condition of the while loop; a comparison with NaN is false.
expandCond(c) ==
    LET r == At(c.P, c.i)
    IN  /\ r # NaN
        /\ c.i + r + 1 < Len(c.T)
        /\ c.i - r - 1 >= 0
        /\ At(c.T, c.i + r + 1) = At(c.T, c.i - r - 1)

\* One test of the while loop, and its body when the test holds.
manacherGrow(c) ==
    IF expandCond(c) THEN [c EXCEPT !.P[c.i + 1] = At(c.P, c.i) + 1]
    ELSE [c EXCEPT !.pc = "update"]

\* "Update center and right boundary", i++ and the test of the for loop.
manacherUpdate(c) ==
    LET r == At(c.P, c.i)
        c1 == IF r # NaN /\ c.i + r > c.R
              THEN [c EXCEPT !.C = c.i, !.R = c.i + r] ELSE c
    IN  [c1 EXCEPT !.i = c.i + 1,
                   !.pc = IF c.i + 1 < Len(c.T) - 1 THEN "mirror" ELSE "max"]

\* "Find the maximum palindrome length", from i on; b holds maxLen and
\* centerIndex.
RECURSIVE findMax(_, _, _)
findMax(P, i, b) ==
    IF i >= Len(P) - 1 THEN b
    ELSE findMax(P, i + 1,
                 IF At(P, i) # NaN /\ At(P, i) > b.maxLen
                 THEN [maxLen |-> At(P, i), centerIndex |-> i] ELSE b)

\* From "Find the maximum palindrome length" to the return statement.
manacherReturn(s, c) ==
    LET b == findMax(c.P, 1, [maxLen |-> 0, centerIndex |-> 0])
        start == (b.centerIndex - b.maxLen) \div 2
    IN  ReturnFrom([c EXCEPT !.maxLength = b.maxLen, !.start = start,
                             !.i = b.centerIndex],
                   mapBack(s, c.indexMapping, start, b.maxLen))

\* The code units of the texts given to the algorithms of src/server.js.
ServerJsAlphabet == {"a", "b", "A", " ", Tab}

\* The texts, and the values that are no strings.
ServerJsInputs ==
    UNION { [1 .. k -> ServerJsAlphabet] : k \in 0 .. MaxLen } \cup NonStrings

InitServerJs ==
    /\ inputString \in ServerJsInputs
    /\ stage = "start"
    /\ data = NoData
    /\ running = "none"
    /\ locals = EntryLocals
    /\ results = [a \in AlgorithmNames |-> NoRet]
    /\ measure = IdleMeasure
    /\ env = [performance |-> TRUE]
    /\ handler = IdleHandler
    /\ eventLoop = IdleLoop
    /\ serverJs = NoCall

Untouched ==
    UNCHANGED << inputString, stage, data, running, locals, results, measure,
                 env, handler, eventLoop >>

CallNaiveLPS ==
    /\ serverJs.pc = "idle"
    /\ serverJs' = naiveLPS(inputString)
    /\ Untouched

CallDpLPS ==
    /\ serverJs.pc = "idle"
    /\ serverJs' = dpLPS(inputString)
    /\ Untouched

CallManacherLPS ==
    /\ serverJs.pc = "idle"
    /\ serverJs' = manacherLPSEntry(inputString)
    /\ Untouched

ManacherMirror ==
    /\ serverJs.pc = "mirror"
    /\ serverJs' = manacherMirror(serverJs)
    /\ Untouched

ManacherGrow ==
    /\ serverJs.pc = "expand"
    /\ serverJs' = manacherGrow(serverJs)
    /\ Untouched

ManacherUpdate ==
    /\ serverJs.pc = "update"
    /\ serverJs' = manacherUpdate(serverJs)
    /\ Untouched

ManacherReturn ==
    /\ serverJs.pc = "max"
    /\ serverJs' = manacherReturn(inputString, serverJs)
    /\ Untouched

NextServerJs ==
    \/ CallNaiveLPS \/ CallDpLPS \/ CallManacherLPS
    \/ ManacherMirror \/ ManacherGrow \/ ManacherUpdate \/ ManacherReturn

SpecServerJs == InitServerJs /\ [][NextServerJs]_vars

\* =================================================================== claims
\* What the claims speak of, stated without the program's own operators.
LettersAndDigits == Range(LowerSeq) \cup Range(UpperSeq) \cup Range(DigitSeq)

IsLetterOrDigit(c) == c \in LettersAndDigits

\* A letter or digit of any script.
IsUnicodeAlnum(c) == IsLetterOrDigit(c) \/ c = LongS

Capitals == Range(UpperSeq)

SmallOf == [c \in Capitals |-> LowerSeq[CHOOSE k \in DOMAIN UpperSeq : UpperSeq[k] = c]]

LowerOf(c) == IF c \in Capitals THEN SmallOf[c] ELSE c

\* Canonicalization: the letters and digits, lower-cased.
Canonical(s) ==
    LET kept == SelectSeq(s, IsLetterOrDigit)
    IN  [k \in DOMAIN kept |-> LowerOf(kept[k])]

\* Canonicalization, were the letters and digits of every script kept.
UnicodeCanonical(s) ==
    LET kept == SelectSeq(s, IsUnicodeAlnum)
    IN  [k \in DOMAIN kept |-> LowerOf(kept[k])]

Reverse(s) == [k \in DOMAIN s |-> s[Len(s) + 1 - k]]

IsPalindrome(s) == s = Reverse(s)

\* The spans <<start, length>> (0-based) of c that are palindromes.
PalindromeSpans(c) ==
    { sp \in (0 .. Len(c) - 1) \X (1 .. Len(c)) :
        /\ sp[1] + sp[2] <= Len(c)
        /\ IsPalindrome(SubSeq(c, sp[1] + 1, sp[1] + sp[2])) }

SetMax(S) == CHOOSE x \in S : \A y \in S : y <= x

SetMin(S) == CHOOSE x \in S : \A y \in S : x <= y

\* The length of the longest palindromic substring of c.
LongestPalindromeLength(c) == SetMax({0} \cup { sp[2] : sp \in PalindromeSpans(c) })

\* The raw offsets of the letters and digits of s.
AlnumOffsets(s) == { i \in 0 .. Len(s) - 1 : IsLetterOrDigit(At(s, i)) }

\* s from offset a to offset b, both included.
RawSlice(s, a, b) == SubSeq(s, a + 1, b + 1)

HasReturned(a) == results[a].kind = "returned"

AllReturned == \A a \in AlgorithmNames : HasReturned(a)

\* The canonical length of what algorithm a returned.
ResultLength(a) == Len(Canonical(results[a].value))

\* C1: whatever an algorithm returned on the output of preprocessString,
\* it returned it normally and its canonical form reads the same reversed.
C1_ResultIsPalindrome ==
    \A a \in AlgorithmNames :
        results[a] # NoRet =>
            /\ HasReturned(a)
            /\ IsPalindrome(Canonical(results[a].value))

\* All three returned a slice that holds dropped characters and whose
\* canonical form has at least three characters.
C1_Witness ==
    /\ AllReturned
    /\ \A a \in AlgorithmNames :
          /\ ResultLength(a) >= 3
          /\ Len(results[a].value) > ResultLength(a)

\* C2: the canonical length of what naiveLPS returned is the length of the
\* longest palindromic substring of the canonical string (0 when it is empty).
C2_NaiveIsLongest ==
    results["naive"] # NoRet =>
        /\ HasReturned("naive")
        /\ ResultLength("naive") = LongestPalindromeLength(Canonical(inputString))

\* "cbbd" gave "bb".
C2_Witness ==
    /\ inputString = Cbbd
    /\ results["naive"] = Returned(<< "b", "b" >>)

\* C3: once all three have returned, their results have the same canonical
\* length.
C3_SameLength ==
    AllReturned =>
        /\ ResultLength("naive") = ResultLength("dp")
        /\ ResultLength("dp") = ResultLength("manacher")

\* All three returned an even-length palindrome shorter than the input.
C3_Witness ==
    /\ AllReturned
    /\ ResultLength("naive") = 2
    /\ ResultLength("manacher") = 2
    /\ ResultLength("dp") = 2
    /\ Len(Canonical(inputString)) = 4

\* C4: indexMapping has one entry per character of processedStr, is strictly
\* increasing, and entry k is the raw offset of a letter or digit whose
\* lower-case form is processedStr[k].
C4_IndexMapping ==
    stage = "preprocessed" =>
        LET im == data.indexMapping
            c == data.processedStr
        IN  /\ Len(im) = Len(c)
            /\ \A k \in 1 .. Len(im) - 1 : im[k] < im[k + 1]
            /\ \A k \in 1 .. Len(im) :
                  /\ im[k] \in 0 .. Len(inputString) - 1
                  /\ IsLetterOrDigit(At(inputString, im[k]))
                  /\ LowerOf(At(inputString, im[k])) = c[k]

\* A mapping that skips a space and a long s and maps a capital.
C4_Witness ==
    /\ stage = "preprocessed"
    /\ inputString = << LongS, "A", " ", "b" >>
    /\ data.indexMapping = << 1, 3 >>

AtReturn(a) == running = a /\ locals.pc = "done"

\* The span chosen by the call that is returning: the best span, or the
\* single character of a one-character string returned as a special case.
ChosenStart == IF locals.maxLength = 0 THEN 0 ELSE locals.maxStart

ChosenEnd == IF locals.maxLength = 0 THEN 0 ELSE locals.maxStart + locals.maxLength - 1

\* C6: an algorithm returns the raw slice from indexMapping[start] to
\* indexMapping[end] of its chosen span, a slice that begins and ends with a
\* letter or digit and whose canonical form is processedStr[start..end]; for
\* an empty processedStr there is no span and it returns the empty string.
C6_RoundTrip ==
    \A a \in AlgorithmNames :
        AtReturn(a) =>
            LET c == data.processedStr
                im == data.indexMapping
                v == locals.ret.value
            IN  IF Len(c) = 0 THEN locals.ret = Returned(<< >>)
                ELSE /\ locals.ret.kind = "returned"
                     /\ 0 <= ChosenStart
                     /\ ChosenStart <= ChosenEnd
                     /\ ChosenEnd < Len(c)
                     /\ v = RawSlice(inputString, im[ChosenStart + 1], im[ChosenEnd + 1])
                     /\ IsLetterOrDigit(v[1])
                     /\ IsLetterOrDigit(v[Len(v)])
                     /\ Canonical(v) = SubSeq(c, ChosenStart + 1, ChosenEnd + 1)

\* dpLPS returns a slice that starts after the first letter and holds a
\* dropped character.
C6_Witness ==
    /\ AtReturn("dp")
    /\ locals.maxStart > 0
    /\ locals.maxLength >= 2
    /\ Len(locals.ret.value) > locals.maxLength

\* The starts of the longest palindromic spans of c.
LongestStarts(c) ==
    { sp[1] : sp \in { q \in PalindromeSpans(c) : q[2] = LongestPalindromeLength(c) } }

\* At its return naiveLPS holds the leftmost of the longest spans.
NaiveReturnsLeftmost ==
    (AtReturn("naive") /\ Len(data.processedStr) > 0) =>
        /\ locals.maxLength = LongestPalindromeLength(data.processedStr)
        /\ locals.maxStart = SetMin(LongestStarts(data.processedStr))
        /\ locals.ret = Returned(RawSlice(inputString,
                            data.indexMapping[locals.maxStart + 1],
                            data.indexMapping[locals.maxStart + locals.maxLength]))
        /\ (inputString = Babad => locals.ret = Returned(<< "b", "a", "b" >>))

\* A step of naiveLPS that changes the best span makes it strictly longer.
NaiveKeepsTies ==
    (running = "naive" /\ running' = "naive" /\
        (locals'.maxStart # locals.maxStart \/ locals'.maxLength # locals.maxLength))
    => locals'.maxLength > locals.maxLength

\* C7: among the longest palindromic spans naiveLPS returns the first its
\* scan finds, the one with the smallest start, and no step replaces the
\* best span by one of equal length; "babad" gives "bab".
C7_FirstFoundWins == [] NaiveReturnsLeftmost /\ [][NaiveKeepsTies]_vars

\* "babad" gave "bab" although "aba" is as long.
C7_Witness ==
    /\ AtReturn("naive")
    /\ inputString = Babad
    /\ Cardinality(LongestStarts(data.processedStr)) = 2
    /\ locals.ret = Returned(<< "b", "a", "b" >>)

\* C8: when the whole canonical string is a palindrome, each algorithm
\* returns the raw slice from the first to the last letter or digit, whose
\* canonical length is that of the canonical string.
C8_WholePalindrome ==
    \A a \in AlgorithmNames :
        (HasReturned(a) /\ IsPalindrome(Canonical(inputString))
                        /\ Len(Canonical(inputString)) >= 1) =>
            /\ results[a].value = RawSlice(inputString,
                                           SetMin(AlnumOffsets(inputString)),
                                           SetMax(AlnumOffsets(inputString)))
            /\ ResultLength(a) = Len(Canonical(inputString))

\* The Panama phrase came back whole from all three.
C8_Witness ==
    /\ inputString = Panama
    /\ AllReturned
    /\ \A a \in AlgorithmNames : results[a].value = Panama

\* C9: on a non-empty canonical string every algorithm returns a slice of
\* canonical length at least 1, and on a one-character canonical string the
\* raw character it came from.
C9_NeverEmpty ==
    \A a \in AlgorithmNames :
        (results[a] # NoRet /\ Len(Canonical(inputString)) >= 1) =>
            /\ HasReturned(a)
            /\ ResultLength(a) >= 1
            /\ Len(Canonical(inputString)) = 1 =>
                  results[a].value =
                      << At(inputString, SetMin(AlnumOffsets(inputString))) >>

\* A capital between dropped characters came back as itself from all three.
C9_Witness ==
    /\ AllReturned
    /\ inputString = << " ", "A", LongS >>
    /\ \A a \in AlgorithmNames : results[a].value = << "A" >>

\* The flags an object returned by measurePerformance can carry.
OutcomeFlags == {"timedOut", "error", "memoryMeasurementIssue"}

\* C10: for a raw input without a letter or digit preprocessString gives an
\* empty processedStr and an empty indexMapping, each algorithm returns the
\* empty string and does not throw, and measurePerformance returns an empty
\* result that carries no timeout, error or unreliable-measurement flag.
C10_NoAlnumIsEmpty ==
    AlnumOffsets(inputString) = {} =>
        /\ stage = "preprocessed" =>
              (data.processedStr = << >> /\ data.indexMapping = << >>)
        /\ \A a \in AlgorithmNames :
              results[a] # NoRet => results[a] = Returned(<< >>)
        /\ measure.pc = "returned" =>
              /\ measure.out.result = << >>
              /\ measure.out.keys \cap OutcomeFlags = {}
              /\ ~measure.out.timedOut
              /\ ~measure.out.memoryMeasurementIssue
              /\ measure.out.error = << >>

\* A long s and a space: the three calls and the measurement of naiveLPS
\* have returned.
C10_Witness ==
    /\ inputString = << LongS, " " >>
    /\ AllReturned
    /\ measure.pc = "returned"
    /\ measure.algorithmName = "naive"

\* ---------------------------------------------------------------- C11
\* The text posted is not a string, or is the empty string.
InputIsInvalid == ~IsString(inputString) \/ inputString = << >>

\* The response is the invalid-input error.
Rejected ==
    /\ handler.response.status = 400
    /\ handler.response.error = << "Input string is required" >>

\* No algorithm has been called for the request.
NothingRan ==
    /\ handler.started = << >>
    /\ measure = IdleMeasure

\* C11: POST /runAlgorithms answers with the invalid-input error, and without
\* running any algorithm, whenever the text posted is not a string or is the
\* empty string, and never answers a non-empty string with it.
C11_InvalidInput ==
    handler.pc = "responded" =>
        /\ InputIsInvalid <=> Rejected
        /\ Rejected => NothingRan

\* The number 42 has been answered.
C11_Witness ==
    /\ inputString = JsNumber
    /\ handler.pc = "responded"

\* ---------------------------------------------------------------- C12
\* The span the running algorithm hands to validatePalindrome: naiveLPS has
\* by then replaced a best length of 0 by the first character.
FinalSpan ==
    IF running = "naive" /\ locals.maxLength = 0
    THEN [start |-> 0, length |-> 1]
    ELSE [start |-> locals.maxStart, length |-> locals.maxLength]

\* The running algorithm is at its validation and validatePalindrome
\* refuses the final span.
FinalSpanFailsValidation ==
    /\ running # "none"
    /\ locals.pc = "finish"
    /\ ~(running = "naive" /\ locals.maxLength = 0 /\ Len(data.processedStr) = 0)
    /\ ~validatePalindrome(substring(data.processedStr, FinalSpan.start,
                                     FinalSpan.start + FinalSpan.length))

\* The case of claim C12 does not arise: no algorithm reaches its validation
\* with a span that validatePalindrome refuses.
ValidationNeverFails == ~FinalSpanFailsValidation

\* ---------------------------------------------------------------- C13
\* The budget in the unit of elapsed, 0.001 ms.
Budget == MAX_EXECUTION_TIME * TimeUnit

\* measurePerformance is between its loops and its return statement, where
\* executionTimes still holds the samples in the order of the runs.
SamplesInOrder == measure.pc \in {"measure", "finish", "returned"}

\* The time since the arming of the timer at which the k-th timed run ended
\* (k = 0: at which the warm-ups ended).
ElapsedAfter(k) ==
    measure.elapsed
      - sum(SubSeq(measure.executionTimes, k + 1, Len(measure.executionTimes)))

\* The budget was exceeded when timed runs remained.
OverranWithRemaining ==
    \E k \in 0 .. measure.iterations - 1 :
        k <= Len(measure.executionTimes) /\ ElapsedAfter(k) > Budget

\* C13: once the time since the arming of the timer exceeds
\* MAX_EXECUTION_TIME while timed iterations remain, no further timed
\* iteration is started (every timed run made was started within the
\* budget), and the result returned has timedOut = true.
C13_TimeoutStops ==
    SamplesInOrder =>
        /\ \A k \in 1 .. Len(measure.executionTimes) : ElapsedAfter(k - 1) <= Budget
        /\ (measure.pc = "returned" /\ OverranWithRemaining) => measure.out.timedOut

\* The first timed run of the measurement of "a" outlasted the budget, six
\* more were made, and the result is back.
C13_Witness ==
    /\ inputString = << "a" >>
    /\ measure.pc = "returned"
    /\ Len(measure.executionTimes) = 7
    /\ measure.executionTimes[1] = SlowRun
    /\ ElapsedAfter(1) > Budget

\* ---------------------------------------------------------------- C14
\* measurePerformance has returned a result flagged timedOut.
TimedOutResult == measure.pc = "returned" /\ measure.out.timedOut

\* The case of claim C14 does not arise: no result is flagged timedOut.
NeverTimedOut == ~TimedOutResult

\* ---------------------------------------------------------------- C15
\* The trimmed mean of the memory samples recorded is not positive.
TrimmedMemoryNotPositive ==
    sum(trimOutliers(sortNumeric(measure.memoryUsages))) <= 0

\* measurePerformance has returned from its final return statement.
ReturnedMeasured ==
    measure.pc = "returned" /\ "memoryMeasurementIssue" \in measure.out.keys

\* C15: the memory delta of a timed iteration is recorded as it was
\* measured, a negative one included and not clamped to zero, and the result
\* is flagged unreliable exactly when the trimmed mean of the recorded
\* deltas is not positive.
C15_NegativeDeltaKept ==
    /\ (measure.pc \in {"measure", "finish"} /\ measure.memoryUsages # << >>) =>
           measure.memoryUsages[Len(measure.memoryUsages)] = measure.heapDelta
    /\ ReturnedMeasured =>
           (measure.out.memoryMeasurementIssue <=> TrimmedMemoryNotPositive)

\* A timed run has left the heap 1024 bytes smaller.
C15_Witness ==
    /\ measure.pc = "measure"
    /\ measure.memoryUsages # << >>
    /\ measure.heapDelta = -1024

\* ---------------------------------------------------------------- C16
\* The response is the comparison.
Answered == handler.pc = "responded" /\ handler.response.status = 200

\* C16: the result of each algorithm in the response carries the timedOut
\* flag and the unreliable-measurement flag that measurePerformance computed
\* for that algorithm.
C16_FlagsReachCaller ==
    /\ (handler.pc = "loop" /\ handler.results # << >>) =>
           LET e == handler.results[Len(handler.results)]
           IN  /\ e.timedOut = measure.out.timedOut
               /\ e.memoryMeasurementIssue = measure.out.memoryMeasurementIssue
    /\ Answered =>
           \A k \in DOMAIN handler.response.results :
               LET r == handler.response.results[k]
                   e == handler.results[k]
               IN  /\ r.algorithm = e.name
                   /\ r.timedOut = e.timedOut
                   /\ r.memoryMeasurementIssue = e.memoryMeasurementIssue

\* The comparison of "a" is answered, and the measurement of manacher was
\* flagged unreliable.
C16_Witness ==
    /\ Answered
    /\ inputString = << "a" >>
    /\ handler.results[1].name = "manacher"
    /\ handler.results[1].memoryMeasurementIssue

\* ---------------------------------------------------------------- C17
\* s is an initial segment of t.
IsPrefix(s, t) == Len(s) <= Len(t) /\ s = SubSeq(t, 1, Len(s))

\* C17: the execution order of a request is a permutation of manacher, naive
\* and dp with each exactly once and manacher first, the measurements are
\* started in that order, and the algorithmOrder of the response is the
\* order in which the measurements were started.
C17_ExecutionOrder ==
    /\ handler.pc \in {"loop", "measuring"} \/ Answered =>
           /\ Len(handler.order) = 3
           /\ { handler.order[k] : k \in 1 .. 3 } = AlgorithmNames
           /\ handler.order[1] = "manacher"
    /\ IsPrefix(handler.started, handler.order)
    /\ Answered =>
           /\ Len(handler.started) = 3
           /\ handler.response.algorithmOrder = handler.started
           /\ \A k \in 1 .. 3 : handler.response.results[k].algorithm
                                    = handler.started[k]

\* A request is answered whose measurements ran manacher, dp, naive: the
\* shuffle has swapped the other two.
C17_Witness ==
    /\ Answered
    /\ handler.started = << "manacher", "dp", "naive" >>
    /\ handler.response.algorithmOrder = << "manacher", "dp", "naive" >>

\* A request is answered whose measurements ran manacher, naive, dp.
C17_Unswapped ==
    /\ Answered
    /\ handler.started = << "manacher", "naive", "dp" >>

\* ---------------------------------------------------------------- C18
\* measurePerformance has been entered and has not returned.
MeasurementInProgress == measure.pc \notin {"idle", "returned"}

\* The measurements started whose result the loop has not yet stored.
Outstanding == Len(handler.started) - Len(handler.results)

\* A step that starts a measurement finds the one before it returned and
\* its result stored.
StartsAfterReturn ==
    handler'.started # handler.started =>
        /\ ~MeasurementInProgress
        /\ Outstanding = 0
        /\ Len(handler'.started) = Len(handler.started) + 1

\* C18: within a request at most one measurement is in progress at any
\* time, and the (k+1)-th measurement is started only after the k-th has
\* returned its result.
C18_OneAtATime ==
    /\ [](Outstanding \in {0, 1} /\ (MeasurementInProgress => Outstanding = 1))
    /\ [][StartsAfterReturn]_vars

\* The second measurement of a request is in its timed loop, the result of
\* the first is stored.
C18_Witness ==
    /\ Len(handler.started) = 2
    /\ Len(handler.results) = 1
    /\ measure.pc = "measure"
    /\ measure.timed > 0

\* ---------------------------------------------------------------- C19
\* Every measurement of the request throws: there is something to measure
\* and the runtime has no global performance.
MeasurementThrows == ~env.performance /\ data.processedStr # << >>

\* The string result of a measurement that threw.
ErrorResult == << "Error: " >> \o performanceMessage

\* C19: when something thrown while an algorithm is measured is caught,
\* measurePerformance returns a result marked as an error for that
\* algorithm, the other algorithms are still measured, and the request is
\* answered with a result for each of the three and not with a failure.
C19_ThrowIsContained ==
    /\ (measure.pc = "returned" /\ stage = "preprocessed" /\ MeasurementThrows) =>
           /\ "error" \in measure.out.keys
           /\ measure.out.error = performanceMessage
           /\ measure.out.result = ErrorResult
    /\ (handler.pc = "responded" /\ Truthy(inputString)) =>
           /\ handler.response.status = 200
           /\ handler.started = handler.order
           /\ Len(handler.response.results) = 3
           /\ MeasurementThrows =>
                  \A k \in 1 .. 3 : handler.response.results[k].result = ErrorResult

\* Without a global performance the request for "ab" is answered, with the
\* error result of each of the three measurements.
C19_Witness ==
    /\ Answered
    /\ inputString = << "a", "b" >>
    /\ ~env.performance
    /\ Len(handler.started) = 3
    /\ \A k \in 1 .. 3 : handler.response.results[k].result = ErrorResult

\* ---------------------------------------------------------------- C20
\* The number of timed iterations the claim gives for a canonical string
\* of length n.
TimedRuns(n) ==
    CASE n < 1000 -> 7
      [] n >= 1000 /\ n < 5000 -> 5
      [] n >= 5000 /\ n < 20000 -> 3
      [] OTHER -> 1

\* The lengths on either side of each tier boundary.
TierBoundaries == {1, 999, 1000, 4999, 5000, 19999, 20000, 20001}

\* measurePerformance has returned, neither timed out nor from its catch
\* block.
CompletedMeasurement ==
    /\ measure.pc = "returned"
    /\ ~measure.out.timedOut
    /\ "error" \notin measure.out.keys

\* The algorithm was called twice to warm up and N times under the clock,
\* and N times and N memory deltas were recorded.
CalledAndSampled(N) ==
    /\ measure.warmups = 2
    /\ measure.timed = N
    /\ measure.warmups + measure.timed = 2 + N
    /\ Len(measure.executionTimes) = N
    /\ Len(measure.memoryUsages) = N

\* No timed call is made before both warm-up calls.
WarmupsFirst == measure.timed > 0 => measure.warmups = 2

\* The tiers of the code are those of the claim.
TiersAsClaimed == \A n \in TierBoundaries : iterationsFor(n) = TimedRuns(n)

\* C20 as stated: in a measurement that neither times out nor throws the
\* algorithm is called exactly 2 + N times, the two warm-ups before every
\* timed call, with N = 7, 5, 3, 1 by the canonical length, and exactly N
\* samples are recorded.
C20_InvocationsAnyLength ==
    /\ WarmupsFirst
    /\ TiersAsClaimed
    /\ CompletedMeasurement => CalledAndSampled(TimedRuns(Len(data.processedStr)))

\* C20 amended: the count 2 + N and the N samples hold of a measurement of a
\* non-empty canonical string; for an empty one measurePerformance returns
\* without calling the algorithm or recording a sample.
C20_Invocations ==
    /\ WarmupsFirst
    /\ TiersAsClaimed
    /\ (CompletedMeasurement /\ data.processedStr # << >>) =>
           CalledAndSampled(TimedRuns(Len(data.processedStr)))
    /\ (CompletedMeasurement /\ data.processedStr = << >>) =>
           /\ measure.warmups = 0 /\ measure.timed = 0
           /\ measure.executionTimes = << >> /\ measure.memoryUsages = << >>

\* The measurement of dpLPS on "A ba" has returned after 2 + 7 calls.
C20_Witness ==
    /\ inputString = << "A", " ", "b", "a" >>
    /\ measure.algorithmName = "dp"
    /\ CompletedMeasurement
    /\ measure.warmups + measure.timed = 9

\* ---------------------------------------------------------------- C21
\* floor(0.2 * N) when N >= 5, and 0 when N < 5.
DiscardedEachSide(N) == IF N >= 5 THEN N \div 5 ELSE 0

\* The series sorted, without its smallest and largest entries.
Kept(series) ==
    LET sorted == SortSeq(series, LAMBDA a, b : a < b)
        c == DiscardedEachSide(Len(series))
    IN  SubSeq(sorted, c + 1, Len(series) - c)

SeqMin(series) == SetMin({ series[k] : k \in DOMAIN series })

SeqMax(series) == SetMax({ series[k] : k \in DOMAIN series })

\* total / den in hundredths, rounded down.
HundredthsDown(total, den) ==
    (total \div den) * 100 + ((total % den) * 100) \div den

\* total / den is a whole number of hundredths.
IsHundredths(total, den) == ((total % den) * 100) % den = 0

\* total / den in hundredths, rounded up.
HundredthsUp(total, den) ==
    HundredthsDown(total, den) + (IF IsHundredths(total, den) THEN 0 ELSE 1)

\* total / den in hundredths, rounded to the nearest.
HundredthsNearest(total, den) ==
    HundredthsDown(total, den)
      + (IF 2 * (((total % den) * 100) % den) >= den THEN 1 ELSE 0)

\* reported (in hundredths) is the arithmetic mean of kept (in 1/unit).
IsMeanOf(reported, kept, unit) ==
    /\ IsHundredths(sum(kept), Len(kept) * unit)
    /\ reported = HundredthsDown(sum(kept), Len(kept) * unit)

\* reported (in hundredths) lies between the smallest and the largest of
\* series (in 1/unit).
IsBetween(reported, series, unit) ==
    /\ HundredthsUp(SeqMin(series), unit) <= reported
    /\ reported <= HundredthsDown(SeqMax(series), unit)

\* reported is the arithmetic mean of kept rounded to the nearest hundredth.
IsRoundedMeanOf(reported, kept, unit) ==
    reported = HundredthsNearest(sum(kept), Len(kept) * unit)

\* reported lies between the smallest and the largest of series, each
\* rounded to a hundredth away from the other.
IsNearlyBetween(reported, series, unit) ==
    /\ HundredthsDown(SeqMin(series), unit) <= reported
    /\ reported <= HundredthsUp(SeqMax(series), unit)

\* The numbers of samples of the four tiers.
SampleCounts == {1, 3, 5, 7}

\* Of n samples n, ..., 1 the outlier removal keeps c + 1, ..., n - c, sorted.
TrimAsClaimed ==
    \A n \in SampleCounts :
        LET c == DiscardedEachSide(n)
        IN  trimOutliers(sortNumeric([k \in 1 .. n |-> n + 1 - k]))
              = [k \in 1 .. n - 2 * c |-> k + c]

\* The two series are sorted each on its own and cut as the claim says, and
\* what is left is not empty.
SortedAndCut ==
    /\ TrimAsClaimed
    /\ ReturnedMeasured =>
           /\ Kept(measure.executionTimes) # << >>
           /\ Kept(measure.memoryUsages) # << >>
           /\ measure.out.allTimes = Kept(measure.executionTimes)
           /\ measure.out.iterations = Len(Kept(measure.executionTimes))

\* C21 as stated: each series is sorted on its own, its floor(0.2 * N)
\* smallest and largest entries are discarded when N >= 5 and none when
\* N < 5, what is left is never empty, and the value reported is its
\* arithmetic mean and so lies between the smallest and the largest sample.
C21_TrimmedMeanExact ==
    /\ SortedAndCut
    /\ ReturnedMeasured =>
           /\ IsMeanOf(measure.out.executionTime, Kept(measure.executionTimes),
                       TimeUnit)
           /\ IsMeanOf(measure.out.memoryUsage, Kept(measure.memoryUsages),
                       MemoryUnit)
           /\ IsBetween(measure.out.executionTime, measure.executionTimes, TimeUnit)
           /\ IsBetween(measure.out.memoryUsage, measure.memoryUsages, MemoryUnit)

\* C21 amended: the value reported is that mean rounded to two decimals,
\* and lies between the smallest and the largest sample up to that
\* rounding.
C21_TrimmedMean ==
    /\ SortedAndCut
    /\ ReturnedMeasured =>
           /\ IsRoundedMeanOf(measure.out.executionTime,
                              Kept(measure.executionTimes), TimeUnit)
           /\ IsRoundedMeanOf(measure.out.memoryUsage,
                              Kept(measure.memoryUsages), MemoryUnit)
           /\ IsNearlyBetween(measure.out.executionTime, measure.executionTimes,
                              TimeUnit)
           /\ IsNearlyBetween(measure.out.memoryUsage, measure.memoryUsages,
                              MemoryUnit)

\* Seven runs of 0.004 ms each were timed and the time reported is 0.
C21_Witness ==
    /\ ReturnedMeasured
    /\ Len(measure.executionTimes) = 7
    /\ SeqMax(measure.executionTimes) = 4
    /\ measure.out.iterations = 5
    /\ measure.out.executionTime = 0

\* ---------------------------------------------------------------- C22
\* A bound on the steps of one pass of a for loop over a canonical string
\* of length n, and on the steps of a whole for loop.
PassBound(n) == 2 * n + 4

LoopBound(n) == (n + 1) * PassBound(n) + 2

\* A number that every step of a running algorithm makes smaller: the
\* steps it has left are no more.
Rank ==
    LET n == Len(data.processedStr)
        l == locals
        rest == 2 + (n - l.i - 1) * PassBound(n)
    IN  CASE l.pc = "done" -> 0
          [] l.pc = "finish" -> 1
          [] l.pc = "even" -> rest + 1 + (l.left + 1)
          [] l.pc = "odd" /\ running # "manacher" -> rest + n + 3 + (l.left + 1)
          [] l.pc \in {"for", "evenfor"} -> rest + PassBound(n)
          [] l.pc = "odd" /\ running = "manacher" ->
                LoopBound(n) + rest + 1 + (l.left + 1)
          [] l.pc = "oddfor" -> LoopBound(n) + rest + PassBound(n)
          [] l.pc = "entry" -> 2 * LoopBound(n) + 10

\* The same for measurePerformance.
MeasureRank ==
    CASE measure.pc = "returned" -> 0
      [] measure.pc = "finish" -> 1
      [] measure.pc = "measure" -> 2 + (measure.iterations - measure.i)
      [] measure.pc = "warmup" -> 10 + (WarmupRuns - measure.i)
      [] measure.pc = "entry" -> 20
      [] measure.pc = "idle" -> 30

\* A step of a running algorithm lowers Rank, a step of measurePerformance
\* lowers MeasureRank.
StepsLowerRank ==
    /\ (running # "none" /\ locals.pc # "done" /\ locals' # locals) =>
           (running' = running /\ Rank' < Rank)
    /\ (measure.pc \notin {"idle", "returned"} /\ measure' # measure) =>
           MeasureRank' < MeasureRank

\* The most often measurePerformance calls the algorithm.
MostInvocations == WarmupRuns + 7

\* C22: each of the three algorithms terminates on every input (each of
\* its steps lowers a rank that is never negative), and measurePerformance
\* returns after at most 2 + 7 calls of the algorithm; a text of 20,000
\* equal characters is measured with a single timed run.
C22_Terminates ==
    /\ [][StepsLowerRank]_vars
    /\ [](Rank >= 0 /\ MeasureRank >= 0)
    /\ [](running # "none" /\ locals.pc # "done" =>
             algorithmStep(running, data, locals) # locals)
    /\ [](measure.warmups + measure.timed <= MostInvocations)
    /\ [](iterationsFor(20000) = 1)

\* The three calls on "A ba" and the measurement of naiveLPS on it have
\* returned, after nine calls of naiveLPS.
C22_Witness ==
    /\ inputString = << "A", " ", "b", "a" >>
    /\ AllReturned
    /\ measure.pc = "returned"
    /\ measure.algorithmName = "naive"
    /\ measure.warmups + measure.timed = 9

\* ---------------------------------------------------------------- C23
\* A step of the running algorithm, from its first statement to its return.
StepOfRun == running # "none" /\ running' = running /\ locals' # locals

\* The step records a longer best span.
Lengthens == locals'.maxLength > locals.maxLength

BestSpanMonotone ==
    StepOfRun =>
        /\ locals'.maxLength >= locals.maxLength
        /\ locals'.maxStart # locals.maxStart => Lengthens

\* C23: during a run of an algorithm the length of the best span never
\* decreases, and its start changes only in a step in which the length
\* strictly increases.
C23_BestSpanGrows == [][BestSpanMonotone]_vars

\* dpLPS on "abb" has replaced its first span, the "a" at 0, by the "bb" at
\* 1, after passing the centre of the "b" at 1, a span as long as the first.
C23_Witness ==
    /\ running = "dp"
    /\ data.processedStr = << "a", "b", "b" >>
    /\ locals.maxStart = 1
    /\ locals.maxLength = 2

\* ---------------------------------------------------------------- C24
\* The call of a that is returning chose the leftmost of the longest
\* palindromic spans of processedStr and returns the raw slice under it.
ReturnsLeftmostLongest(a) ==
    (AtReturn(a) /\ Len(data.processedStr) > 0) =>
        LET c == data.processedStr
            im == data.indexMapping
        IN  /\ ChosenStart = SetMin(LongestStarts(c))
            /\ ChosenEnd - ChosenStart + 1 = LongestPalindromeLength(c)
            /\ locals.ret = Returned(RawSlice(inputString, im[ChosenStart + 1],
                                              im[ChosenEnd + 1]))

\* C24: on every raw input naiveLPS, dpLPS and manacherLPS return the same
\* raw substring, from the same start offset to the same end offset, although
\* manacherLPS scans every odd centre before every even one.
C24_SameSubstring ==
    /\ \A a \in AlgorithmNames : ReturnsLeftmostLongest(a)
    /\ AllReturned => \A a \in AlgorithmNames : results[a] = results["naive"]

\* All three returned "Aa", the first of the two longest spans of "Aabb",
\* both even, which manacherLPS meets after every odd centre.
C24_Witness ==
    /\ AllReturned
    /\ inputString = << "A", "a", "b", "b" >>
    /\ Cardinality(LongestStarts(data.processedStr)) = 2
    /\ \A a \in AlgorithmNames : results[a] = Returned(<< "A", "a" >>)

\* ---------------------------------------------------------------- C25
\* The best span of the running algorithm lies within processedStr and
\* reads the same reversed.
BestSpanIsPalindrome ==
    running # "none" =>
        /\ 0 <= locals.maxStart
        /\ 0 <= locals.maxLength
        /\ locals.maxStart + locals.maxLength <= Len(data.processedStr)
        /\ IsPalindrome(SubSeq(data.processedStr, locals.maxStart + 1,
                               locals.maxStart + locals.maxLength))

\* C25: at every point of the scan the best span lies within the canonical
\* string and is a palindrome of it; hence validatePalindrome does not
\* refuse the final span and the single-character fallback is not taken.
C25_SpanStaysPalindrome == BestSpanIsPalindrome /\ ValidationNeverFails

\* manacherLPS has reached its validation with the span "aba" at 0 of "abab".
C25_Witness ==
    /\ running = "manacher"
    /\ locals.pc = "finish"
    /\ data.processedStr = << "a", "b", "a", "b" >>
    /\ locals.maxStart = 0
    /\ locals.maxLength = 3
    /\ validatePalindrome(substring(data.processedStr, FinalSpan.start,
                                    FinalSpan.start + FinalSpan.length))

\* ---------------------------------------------------------------- C26
\* measurePerformance has returned from a call in which it armed the timer.
ReturnedAfterArming == measure.pc = "returned" /\ measure.out # emptyOutcome

\* C26: whichever way measurePerformance returns after arming the timer,
\* normally, timed out or from its catch block, the timer has been cancelled
\* by then, so that its callback cannot run after the return.
C26_TimerCancelled == ReturnedAfterArming => ~measure.timerArmed

\* measurePerformance returned from its catch block and the callback of its
\* timer ran afterwards.
C26_Witness ==
    /\ measure.pc = "returned"
    /\ measure.out = errorOutcome(performanceMessage)
    /\ measure.timedOut
    /\ ~measure.timerArmed

\* Where the try block returns, the timer is no longer armed.
C26_CancelledOutsideCatch ==
    (ReturnedAfterArming /\ "error" \notin measure.out.keys) => ~measure.timerArmed

\* ---------------------------------------------------------------- C27
\* The handler has started to measure and has not sent its response.
InFlight == handler.pc \in {"loop", "measuring"}

\* The callback of a timer runs.
TimerCallbackRuns ==
    \/ handler'.timers < handler.timers
    \/ /\ measure.pc = "returned" /\ measure'.pc = "returned"
       /\ measure.timerArmed /\ ~measure'.timerArmed

\* A step taken while a handler is in flight is a step of that handler:
\* no other request is dispatched, no timer callback runs, and the text
\* measured is the text of the request.
NothingElseRuns ==
    InFlight =>
        /\ eventLoop' = eventLoop
        /\ ~TimerCallbackRuns
        /\ inputString' = inputString
        /\ IsPrefix(handler.started, handler'.started)

\* C27: from the moment a /runAlgorithms handler starts measuring, its
\* three measurements and its response are produced before the handler of
\* another request or a timer callback runs, so that the measurements of two
\* requests do not interleave.
C27_RunsToResponse ==
    /\ [][NothingElseRuns]_vars
    /\ [](Answered => Len(handler.started) = Len(algorithms))

\* The second request is being measured while a timer of the first, whose
\* measurements threw, is still armed.
C27_Witness ==
    /\ eventLoop.dispatched = 2
    /\ InFlight
    /\ handler.timers > 0
    /\ Len(handler.started) = 2

\* ---------------------------------------------------------------- C28
\* The call of fn of src/server.js on a text has returned.
ReturnedFrom(fn) ==
    serverJs.pc = "done" /\ serverJs.fn = fn /\ IsString(inputString)

\* C28: naiveLPS of src/server.js returns a substring whose form without
\* white space and in lower case is a palindrome as long as the longest
\* palindromic substring of the text in that form, also when the text
\* begins with white space or has a single character in that form.
C28_NaiveLPSIsLongest ==
    ReturnedFrom("naive") =>
        /\ IsPalindrome(stripLower(serverJs.ret))
        /\ Len(stripLower(serverJs.ret)) =
               LongestPalindromeLength(stripLower(inputString))

\* naiveLPS returned the leading space of " a".
C28_Witness ==
    /\ ReturnedFrom("naive")
    /\ inputString = << " ", "a" >>
    /\ serverJs.ret = << " " >>

\* The text has a palindrome of two characters or more in its stripped form,
\* or begins with its only character.
SpanOutgrowsDefault ==
    \/ LongestPalindromeLength(stripLower(inputString)) >= 2
    \/ Len(inputString) >= 1 /\ ~MatchesWhiteSpace(inputString[1])

\* Where the text does not begin with white space or holds a palindrome of
\* two characters, naiveLPS returns one of the longest.
NaiveLPSIsLongestOtherwise ==
    (ReturnedFrom("naive") /\ SpanOutgrowsDefault) =>
        /\ IsPalindrome(stripLower(serverJs.ret))
        /\ Len(stripLower(serverJs.ret)) =
               LongestPalindromeLength(stripLower(inputString))

\* ---------------------------------------------------------------- C29
\* indexMapping has one entry for each character of processedStr, the
\* offset in the text of the character it came from, and what the call
\* returned is, without white space and in lower case, the palindrome found.
MapsBack ==
    LET im == serverJs.indexMapping
        found == SubSeq(serverJs.processedStr, serverJs.start + 1,
                        serverJs.start + serverJs.maxLength)
    IN  /\ Len(im) = Len(serverJs.processedStr)
        /\ \A k \in DOMAIN im :
              /\ im[k] + 1 \in DOMAIN inputString
              /\ k \in DOMAIN serverJs.processedStr
              /\ toLowerCaseChar(At(inputString, im[k])) = serverJs.processedStr[k]
        /\ stripLower(serverJs.ret) = found

\* The call filled indexMapping.
Mapped(fn) == ReturnedFrom(fn) /\ serverJs.processedStr # << >>

\* C29: in dpLPS and manacherLPS of src/server.js indexMapping has exactly
\* one entry for each processed character, for texts with tabs or line
\* feeds too, and entry k is the offset of processed character k in the text,
\* so that the substring returned is, without white space and in lower case,
\* the palindrome found.
C29_IndexMappingMapsBack ==
    \A fn \in {"dp", "manacher"} : Mapped(fn) => MapsBack

\* dpLPS found "aa" in a text that begins with a tab and returned the tab
\* and the first "a".
C29_Witness ==
    /\ ReturnedFrom("dp")
    /\ inputString = << Tab, "a", "a" >>
    /\ serverJs.indexMapping = << 0, 1, 2 >>
    /\ serverJs.ret = << Tab, "a" >>

\* The text has no white space other than spaces.
SpacesOnly == \A k \in DOMAIN inputString : inputString[k] \notin {Tab, LineFeed}

\* For a text whose white space is spaces the mapping is as C29 has it.
IndexMappingMapsBackSpaces ==
    \A fn \in {"dp", "manacher"} : (Mapped(fn) /\ SpacesOnly) => MapsBack

\* ---------------------------------------------------------------- C30
\* The largest r for which T[i-r .. i+r] lies within T and reads the same
\* reversed.
Radius(T, i) ==
    SetMax({ r \in 0 .. Len(T) :
               /\ i - r >= 0
               /\ i + r < Len(T)
               /\ IsPalindrome(SubSeq(T, i - r + 1, i + r + 1)) })

\* After the main loop P holds the radius of every position but the two ends.
RadiiAreLargest ==
    serverJs.pc = "max" =>
        \A i \in 1 .. Len(serverJs.T) - 2 :
            At(serverJs.P, i) = Radius(serverJs.T, i)

\* The index at which the main loop is about to read P or T is an index of it.
ReadsWithinBounds ==
    /\ (serverJs.pc = "mirror" /\ serverJs.R > serverJs.i) =>
           /\ 0 <= 2 * serverJs.C - serverJs.i
           /\ 2 * serverJs.C - serverJs.i < Len(serverJs.P)
    /\ serverJs.pc \in {"mirror", "expand", "update"} =>
           /\ 0 <= serverJs.i /\ serverJs.i < Len(serverJs.P)
           /\ At(serverJs.P, serverJs.i) # NaN
    /\ (serverJs.pc = "expand"
          /\ serverJs.i + At(serverJs.P, serverJs.i) + 1 < Len(serverJs.T)
          /\ serverJs.i - At(serverJs.P, serverJs.i) - 1 >= 0) =>
           /\ serverJs.i + At(serverJs.P, serverJs.i) + 2 \in DOMAIN serverJs.T
           /\ serverJs.i - At(serverJs.P, serverJs.i) \in DOMAIN serverJs.T

\* The largest entry of P is the length of the longest palindromic
\* substring of processedStr.
MaxIsLongest ==
    Mapped("manacher") =>
        serverJs.maxLength = LongestPalindromeLength(serverJs.processedStr)

\* C30: in manacherLPS of src/server.js, after the main loop P[i] is the
\* largest radius r for which T[i-r..i+r] is a palindrome, at every position
\* of T but its two ends; every read of P[2 * C - i] and of T is within
\* bounds; and the largest entry of P is the length of the longest
\* palindromic substring of the processed string.
C30_ManacherRadii == RadiiAreLargest /\ ReadsWithinBounds /\ MaxIsLongest

\* The main loop has ended on "abab", whose radii it took in part from
\* their mirror images.
C30_Witness ==
    /\ serverJs.pc = "max"
    /\ serverJs.processedStr = << "a", "b", "a", "b" >>
    /\ serverJs.P = << 0, 1, 0, 3, 0, 3, 0, 1, 0 >>

====
